---- MODULE Spec2Model ----
(***************************************************************************)
(* A model of firebreak's evaluation pipeline: the classification cache,   *)
(* the intent classifier, the policy engine, the audit log and the         *)
(* interceptor that sequences them.                                        *)
(*                                                                         *)
(* Conventions.                                                            *)
(*  - A Python Optional is a sequence of length at most one: <<>> is None  *)
(*    and <<v>> is the value v.                                            *)
(*  - A Python str that the code normalises (a prompt) is a sequence of    *)
(*    one-character strings, so that strip() and lower() are computed.     *)
(*    Other strings (category names, rule ids) are TLA+ strings.           *)
(*  - An object the code compares or shares by reference carries an oid,   *)
(*    the number of its allocation.                                        *)
(*  - A float confidence is an integer number of hundredths.               *)
(*  - Timestamps (datetime.now()) are not modelled.                        *)
(***************************************************************************)
EXTENDS Integers, Sequences, FiniteSets, TLC

\* ------------------------------------------------------------------ bounds

\* Longest prompt the cache operations are tried on.
MaxPromptLen == 3
\* Most rules in a policy source.
MaxRules == 3
\* Most ClassifierCache.set calls made directly on a cache.
MaxSets == 2
\* Most evaluate_request calls in one run.
MaxCalls == 2
\* Most callbacks registered on the interceptor.
MaxCallbacks == 1
\* Most policy loads in one run of the pipeline.
MaxLoads == 1
\* Most policy loads in one run of the engine alone.
MaxEngineLoads == 2
\* Most AuditLog.log calls made directly on the log.
MaxLogs == 2
\* Most get_entries and get_alerts calls made on the log.
MaxGets == 2
\* Most changes a caller makes to a list the log returned.
MaxMutations == 1
\* Most evaluate_request calls in one run of the audit log's callers.
MaxAuditCalls == 1
\* Most requests the proxy is sent in one run.
MaxRequests == 2
\* Most callbacks registered where the order among callbacks matters.
MaxObservers == 2
\* Most results of direct evaluate calls held at a time.
MaxHeld == 2
\* Most threads calling evaluate_request on one interceptor at a time, when
\* the interceptor is used from several threads.
MaxThreads == 2

\* ---------------------------------------------------------------- callers

\* The callers of evaluate_request at any one time: the proxy's handler
\* calls it synchronously, so a request is served to its end before the
\* next one is taken up.
NumThreads == 1

\* ----------------------------------------------------------------- strings

\* The characters prompts are made of: a lower-case letter, its upper-case
\* form, and a whitespace character.
Alphabet == {"a", "A", " "}

\* str.isspace() of one character.
IsSpace(c) == c = " "

\* str.lower() of one character.
LowerChar(c) == IF c = "A" THEN "a" ELSE c

\* str.lower()
Lower(s) == [i \in 1..Len(s) |-> LowerChar(s[i])]

\* str.lstrip(): drop the leading whitespace.
RECURSIVE LStrip(_)
LStrip(s) ==
    IF s = <<>> THEN <<>>
    ELSE IF IsSpace(Head(s)) THEN LStrip(Tail(s))
    ELSE s

\* str.rstrip(): drop the trailing whitespace.
RECURSIVE RStrip(_)
RStrip(s) ==
    IF s = <<>> THEN <<>>
    ELSE IF IsSpace(s[Len(s)]) THEN RStrip(SubSeq(s, 1, Len(s) - 1))
    ELSE s

\* str.strip()
Strip(s) == RStrip(LStrip(s))

\* The cache key of a prompt: prompt.strip().lower()
NormalizeKey(prompt) == Lower(Strip(prompt))

\* All strings over Alphabet of length at most n.
RECURSIVE StringsUpTo(_)
StringsUpTo(n) ==
    IF n = 0 THEN {<<>>}
    ELSE LET shorter == StringsUpTo(n - 1)
         IN  shorter \cup {Append(s, c) : s \in shorter, c \in Alphabet}

Prompts == StringsUpTo(MaxPromptLen)

\* ---------------------------------------------------------------- Optional

None == <<>>
Some(v) == <<v>>
IsNone(o) == o = <<>>
IsSome(o) == o # <<>>
Get(o) == o[1]

\* ------------------------------------------------------------- data model

\* models.Decision
Decision == {"ALLOW", "ALLOW_CONSTRAINED", "BLOCK"}

\* models.AuditLevel
AuditLevel == {"standard", "enhanced", "critical"}

\* models.ClassificationResult
ClassificationResult(oid, category, confidence, raw_prompt) ==
    [oid |-> oid, intent_category |-> category, confidence |-> confidence,
     raw_prompt |-> raw_prompt]

\* models.PolicyRule
PolicyRule(id, description, match_categories, decision, audit, requires_human, constraints, alerts, color, note) ==
    [id |-> id, description |-> description,
     match_categories |-> match_categories, decision |-> decision,
     audit |-> audit, requires_human |-> requires_human,
     constraints |-> constraints, alerts |-> alerts, color |-> color,
     note |-> note]

\* models.Policy
Policy(name, version, effective, signatories, rules, categories) ==
    [name |-> name, version |-> version, effective |-> effective,
     signatories |-> signatories, rules |-> rules, categories |-> categories]

\* models.EvaluationResult; llm_response defaults to None.
EvaluationResult(oid, decision, matched_rule_id, rule_description, audit_level, alerts, constraints, color, note, classification) ==
    [oid |-> oid, decision |-> decision, matched_rule_id |-> matched_rule_id,
     rule_description |-> rule_description, audit_level |-> audit_level,
     alerts |-> alerts, constraints |-> constraints, color |-> color,
     note |-> note, classification |-> classification, llm_response |-> None]

\* models.AuditEntry; id is the uuid4 drawn for the entry.
AuditEntry(id, prompt_text, classification, evaluation) ==
    [id |-> id, prompt_text |-> prompt_text, classification |-> classification,
     evaluation |-> evaluation]

\* The outcome of a call: a returned value, or the exception it raised.
Returned(v) == [value |-> Some(v), error |-> None]
Raised(kind, msg) == [value |-> None, error |-> Some([kind |-> kind, msg |-> msg])]
DidReturn(out) == IsSome(out.value)
DidRaise(out) == IsSome(out.error)

\* x in lst, for a Python list.
InList(x, lst) == \E i \in 1..Len(lst) : lst[i] = x

\* ------------------------------------------------- policy source documents

\* What yaml.safe_load gives, tagged where the loader tests the type: a
\* mapping, a list, or anything else (a scalar, null).
YMap(m) == [t |-> "map", m |-> m]
YList(l) == [t |-> "list", l |-> l]
YScalar(v) == [t |-> "scalar", v |-> v]
\* A number, which str() formats.
YNum(n) == [t |-> "num", n |-> n]

\* isinstance(x, dict), isinstance(x, list)
IsDict(x) == x.t = "map"
IsList(x) == x.t = "list"
\* key in mapping; mapping[key]; mapping.get(key, default)
HasKey(x, k) == k \in DOMAIN x.m
Item(x, k) == x.m[k]
GetOr(x, k, default) == IF HasKey(x, k) THEN x.m[k] ELSE default
\* str(x) of a leaf: a string is itself, a number is formatted.
PyStr(x) == IF x.t = "num" THEN ToString(x.n) ELSE x.v

\* The rules policy sources are built from. Every category is listed by two
\* of them, with different decisions.
RawAllow ==
    YMap([id |-> "allow-analysis", description |-> "Analysis tasks",
          match_categories |-> <<"summarization", "translation">>,
          decision |-> "ALLOW"])
RawConstrain ==
    YMap([id |-> "constrain-defense", description |-> "Defensive systems",
          match_categories |-> <<"missile_defense", "summarization">>,
          decision |-> "ALLOW_CONSTRAINED", audit |-> "enhanced",
          requires_human |-> TRUE, constraints |-> <<"human_in_loop">>,
          alerts |-> <<"oversight">>, color |-> "yellow",
          note |-> "Human review required"])
RawBlock ==
    YMap([id |-> "block-surveillance", description |-> "Mass surveillance",
          match_categories |-> <<"bulk_surveillance", "translation">>,
          decision |-> "BLOCK", audit |-> "critical",
          alerts |-> <<"trust_safety", "inspector_general">>,
          color |-> "red"])
RawLate ==
    YMap([id |-> "allow-late", description |-> "Catch-all",
          match_categories |-> <<"unclassified", "bulk_surveillance", "missile_defense">>,
          decision |-> "ALLOW"])
RulePool == {RawAllow, RawConstrain, RawBlock, RawLate}

\* All sequences over S of length 1..n.
RECURSIVE SeqsUpTo(_, _)
SeqsUpTo(S, n) ==
    IF n = 0 THEN {}
    ELSE LET shorter == SeqsUpTo(S, n - 1)
         IN  {<<x>> : x \in S} \cup shorter
               \cup {Append(s, x) : s \in shorter, x \in S}

PolicyHeader == YMap([name |-> YScalar("defense-standard"), version |-> YNum(2),
                      effective |-> YScalar("2026-02-28")])
PolicyCategories == <<"summarization", "translation", "missile_defense", "bulk_surveillance">>

\* A well-formed source holding the given raw rules.
Doc(raw_rules) ==
    YMap([policy |-> PolicyHeader, categories |-> PolicyCategories,
          rules |-> YList(raw_rules)])

ValidDocs == {Doc(rs) : rs \in SeqsUpTo(RulePool, MaxRules)}

\* Sources the loader must refuse.
InvalidDocs ==
    { YScalar("just text"),
      YMap([rules |-> YList(<<RawAllow>>)]),
      YMap([policy |-> YScalar("x"), rules |-> YList(<<RawAllow>>)]),
      YMap([policy |-> YMap([version |-> YNum(2)]), rules |-> YList(<<RawAllow>>)]),
      YMap([policy |-> YMap([name |-> YScalar("p")]), rules |-> YList(<<RawAllow>>)]),
      YMap([policy |-> PolicyHeader]),
      YMap([policy |-> PolicyHeader, rules |-> YList(<<>>)]),
      YMap([policy |-> PolicyHeader, rules |-> YScalar("none")]),
      YMap([policy |-> PolicyHeader, rules |-> YList(<<RawAllow, YScalar("r")>>)]),
      YMap([policy |-> PolicyHeader,
            rules |-> YList(<<YMap([decision |-> "ALLOW", match_categories |-> <<"summarization">>])>>)]),
      YMap([policy |-> PolicyHeader,
            rules |-> YList(<<RawBlock, YMap([id |-> "r2", match_categories |-> <<"summarization">>])>>)]),
      YMap([policy |-> PolicyHeader,
            rules |-> YList(<<YMap([id |-> "r3", decision |-> "BLOCK"])>>)]),
      YMap([policy |-> PolicyHeader,
            rules |-> YList(<<YMap([id |-> "r4", decision |-> "MAYBE", match_categories |-> <<"summarization">>])>>)]),
      YMap([policy |-> PolicyHeader,
            rules |-> YList(<<YMap([id |-> "r5", decision |-> "ALLOW", audit |-> "loud",
                                     match_categories |-> <<"summarization">>])>>)]) }

\* A rule that lists no category, and sources holding it: it has every
\* required key.
RawNoCategories ==
    YMap([id |-> "dead-rule", description |-> "Matches nothing",
          match_categories |-> <<>>, decision |-> "ALLOW"])
LaxDocs == {Doc(<<RawNoCategories>>), Doc(<<RawBlock, RawNoCategories>>)}

AllDocs == ValidDocs \cup InvalidDocs \cup LaxDocs

\* ------------------------------------------------------------ PolicyEngine

\* Decision taking any value for a member.
ToDecisionAny(v) == Returned(v)

\* Decision(value): the enum member with that value, or ValueError.
ToDecision(v) ==
    IF v \in Decision THEN Returned(v)
    ELSE Raised("ValueError", <<v, "is not a valid Decision">>)

\* AuditLevel(value): the enum member with that value, or ValueError.
ToAuditLevel(v) ==
    IF v \in AuditLevel THEN Returned(v)
    ELSE Raised("ValueError", <<v, "is not a valid AuditLevel">>)

\* One pass of load's loop over raw_rules: the rule built from raw_rules[i],
\* or the error raised for it.
BuildRule(raw_rule, i) ==
    IF ~IsDict(raw_rule)
    THEN Raised("ValueError", <<"Rule at index", i, "must be a mapping">>)
    ELSE IF ~HasKey(raw_rule, "id")
    THEN Raised("ValueError", <<"Rule at index", i, "is missing required field: id">>)
    ELSE IF ~HasKey(raw_rule, "decision")
    THEN Raised("ValueError", <<"Rule", Item(raw_rule, "id"), "is missing required field: decision">>)
    ELSE IF ~HasKey(raw_rule, "match_categories")
    THEN Raised("ValueError", <<"Rule", Item(raw_rule, "id"), "is missing required field: match_categories">>)
    ELSE LET decision == ToDecision(Item(raw_rule, "decision"))
             audit == ToAuditLevel(GetOr(raw_rule, "audit", "standard"))
         IN  IF DidRaise(decision) THEN decision
             ELSE IF DidRaise(audit) THEN audit
             ELSE Returned(PolicyRule(Item(raw_rule, "id"),
                                      GetOr(raw_rule, "description", ""),
                                      Item(raw_rule, "match_categories"),
                                      Get(decision.value), Get(audit.value),
                                      GetOr(raw_rule, "requires_human", FALSE),
                                      GetOr(raw_rule, "constraints", <<>>),
                                      GetOr(raw_rule, "alerts", <<>>),
                                      GetOr(raw_rule, "color", "green"),
                                      GetOr(raw_rule, "note", "")))

\* load's loop: the rules built so far are `rules`, the next index is i
\* (from 1 here, from 0 in the code's messages).
RECURSIVE BuildRules(_, _, _)
BuildRules(raw_rules, i, rules) ==
    IF i > Len(raw_rules) THEN Returned(rules)
    ELSE LET rule == BuildRule(raw_rules[i], i - 1)
         IN  IF DidRaise(rule) THEN rule
             ELSE BuildRules(raw_rules, i + 1, Append(rules, Get(rule.value)))

\* load accepting an empty list of rules.
LoadPolicyAllowEmptyRules(data) ==
    IF ~IsDict(data) \/ ~HasKey(data, "policy")
    THEN Raised("ValueError", <<"YAML must contain a top-level 'policy' section">>)
    ELSE IF ~IsDict(Item(data, "policy"))
    THEN Raised("ValueError", <<"'policy' section must be a mapping">>)
    ELSE IF ~HasKey(Item(data, "policy"), "name")
    THEN Raised("ValueError", <<"Policy is missing required field: policy.name">>)
    ELSE IF ~HasKey(Item(data, "policy"), "version")
    THEN Raised("ValueError", <<"Policy is missing required field: policy.version">>)
    ELSE IF ~HasKey(data, "rules")
    THEN Raised("ValueError", <<"YAML must contain a top-level 'rules' section">>)
    ELSE IF ~IsList(Item(data, "rules"))
    THEN Raised("ValueError", <<"'rules' must be a list">>)
    ELSE LET policy_data == Item(data, "policy")
             rules == BuildRules(Item(data, "rules").l, 1, <<>>)
         IN  IF DidRaise(rules) THEN rules
             ELSE Returned(Policy(Item(policy_data, "name").v,
                                  PyStr(Item(policy_data, "version")),
                                  PyStr(GetOr(policy_data, "effective", YScalar(""))),
                                  GetOr(policy_data, "signatories", <<>>),
                                  Get(rules.value),
                                  GetOr(data, "categories", <<>>)))

\* PolicyEngine.load, from the parsed source on: the Policy, or ValueError.
LoadPolicy(data) ==
    IF ~IsDict(data) \/ ~HasKey(data, "policy")
    THEN Raised("ValueError", <<"YAML must contain a top-level 'policy' section">>)
    ELSE IF ~IsDict(Item(data, "policy"))
    THEN Raised("ValueError", <<"'policy' section must be a mapping">>)
    ELSE IF ~HasKey(Item(data, "policy"), "name")
    THEN Raised("ValueError", <<"Policy is missing required field: policy.name">>)
    ELSE IF ~HasKey(Item(data, "policy"), "version")
    THEN Raised("ValueError", <<"Policy is missing required field: policy.version">>)
    ELSE IF ~HasKey(data, "rules")
    THEN Raised("ValueError", <<"YAML must contain a top-level 'rules' section">>)
    ELSE IF ~IsList(Item(data, "rules")) \/ Len(Item(data, "rules").l) = 0
    THEN Raised("ValueError", <<"'rules' must be a non-empty list">>)
    ELSE LET policy_data == Item(data, "policy")
             rules == BuildRules(Item(data, "rules").l, 1, <<>>)
         IN  IF DidRaise(rules) THEN rules
             ELSE Returned(Policy(Item(policy_data, "name").v,
                                  PyStr(Item(policy_data, "version")),
                                  PyStr(GetOr(policy_data, "effective", YScalar(""))),
                                  GetOr(policy_data, "signatories", <<>>),
                                  Get(rules.value),
                                  GetOr(data, "categories", <<>>)))

\* ScanRules keeping the last match instead of returning at the first.
RECURSIVE ScanRulesLastMatch(_, _, _)
ScanRulesLastMatch(rules, i, intent_category) ==
    IF i > Len(rules) THEN 0
    ELSE LET later == ScanRulesLastMatch(rules, i + 1, intent_category)
         IN  IF later # 0 THEN later
             ELSE IF InList(intent_category, rules[i].match_categories) THEN i
             ELSE 0

\* evaluate's loop: the index of the first rule from i on whose
\* match_categories holds the category, 0 when the loop runs out.
RECURSIVE ScanRules(_, _, _)
ScanRules(rules, i, intent_category) ==
    IF i > Len(rules) THEN 0
    ELSE IF InList(intent_category, rules[i].match_categories) THEN i
    ELSE ScanRules(rules, i + 1, intent_category)

\* The result evaluate builds from the matching rule.
MatchResult(rule, classification, oid) ==
    EvaluationResult(oid, rule.decision, rule.id, rule.description, rule.audit,
                     rule.alerts, rule.constraints, rule.color, rule.note,
                     classification)

\* DefaultResult failing open: the default decision is ALLOW.
DefaultResultFailOpen(classification, oid) ==
    EvaluationResult(oid, "ALLOW", "unknown-intent",
                     "No matching rule for intent category", "critical",
                     <<"trust_safety">>, <<>>, "red", "", classification)

\* The result evaluate builds when no rule matched.
DefaultResult(classification, oid) ==
    EvaluationResult(oid, "BLOCK", "unknown-intent",
                     "No matching rule for intent category", "critical",
                     <<"trust_safety">>, <<>>, "red", "", classification)

\* evaluate answering with the default block when no policy is loaded.
EvaluateBlocksWithoutPolicy(pol, intent_category, classification, oid) ==
    IF IsNone(pol) \/ ScanRules(Get(pol).rules, 1, intent_category) = 0
    THEN Returned(DefaultResult(classification, oid))
    ELSE Returned(MatchResult(Get(pol).rules[ScanRules(Get(pol).rules, 1, intent_category)],
                              classification, oid))

\* evaluate letting the confidence decide: a classification of low
\* confidence gets the default block whatever the rules say.
EvaluateLowConfidenceBlocks(pol, intent_category, classification, oid) ==
    IF IsNone(pol)
    THEN Raised("RuntimeError", <<"No policy loaded. Call load() first.">>)
    ELSE IF classification.confidence < 50 \/ ScanRules(Get(pol).rules, 1, intent_category) = 0
    THEN Returned(DefaultResult(classification, oid))
    ELSE Returned(MatchResult(Get(pol).rules[ScanRules(Get(pol).rules, 1, intent_category)],
                              classification, oid))

\* PolicyEngine.evaluate on the engine's policy `pol` (an Optional); oid
\* names the EvaluationResult it allocates.
Evaluate(pol, intent_category, classification, oid) ==
    IF IsNone(pol)
    THEN Raised("RuntimeError", <<"No policy loaded. Call load() first.">>)
    ELSE LET rules == Get(pol).rules
             i == ScanRules(rules, 1, intent_category)
         IN  IF i # 0 THEN Returned(MatchResult(rules[i], classification, oid))
             ELSE Returned(DefaultResult(classification, oid))

\* --------------------------------------------------------- ClassifierCache

\* dict.get(key): the value, or None.
DictGet(d, key) == IF key \in DOMAIN d THEN Some(d[key]) ELSE None

\* d[key] = value
DictPut(d, key, value) ==
    [k \in DOMAIN d \cup {key} |-> IF k = key THEN value ELSE d[k]]

\* ClassifierCache.get without the lower-casing of the key.
CacheGetNoLower(c, prompt) == DictGet(c, Strip(prompt))

\* ClassifierCache.get
CacheGet(c, prompt) == DictGet(c, NormalizeKey(prompt))

\* ClassifierCache.set
CacheSet(c, prompt, result) == DictPut(c, NormalizeKey(prompt), result)

\* ClassifierCache._load_from_file's loop over the entries of the file, a
\* sequence of [key, category, confidence]; entry i gets oid -i (an object
\* made at construction, before any the run allocates).
RECURSIVE LoadFromFile(_, _, _)
LoadFromFile(c, data, i) ==
    IF i > Len(data) THEN c
    ELSE LoadFromFile(
            DictPut(c, data[i].key,
                    ClassificationResult(0 - i, data[i].category, data[i].confidence, data[i].key)),
            data, i + 1)

\* ClassifierCache.__init__: cache_path is None (<<>>) or names a file with
\* the given entries.
NewCache(cache_file) ==
    IF IsNone(cache_file) THEN <<>> ELSE LoadFromFile(<<>>, Get(cache_file), 1)

\* The cache files a cache is constructed from: none, or one with a key that
\* is in normal form and a key that is not.
CacheFiles ==
    { None,
      Some(<< [key |-> <<"a", "a">>, category |-> "summarization", confidence |-> 88],
              [key |-> <<"A">>, category |-> "bulk_surveillance", confidence |-> 97] >>) }

\* The classification handed to the i-th direct ClassifierCache.set: a new
\* object each time.
CacheValue(i) == ClassificationResult(100 + i, "summarization", 90 - i, <<"a">>)

\* ---------------------------------------------------------------- state

VARIABLES
    policy,      \* PolicyEngine.policy: an Optional Policy
    loadOut,     \* the latest PolicyEngine.load: the parsed source and the outcome
    evalOut,     \* the latest direct PolicyEngine.evaluate: its arguments and outcome
    loads,       \* how many loads were made
    cacheFile,   \* the file the cache was constructed from (an Optional)
    cache,       \* ClassifierCache._cache
    sets,        \* the ClassifierCache.set calls so far, direct or classify's: [prompt, result]
    getOut,      \* the latest direct ClassifierCache.get since the last set
    classifier,  \* IntentClassifier: its categories, and whether a cache is attached
    entries,     \* AuditLog.entries
    callbacks,   \* FirebreakInterceptor.callbacks: event name -> callbacks, in registration order
    call,        \* per thread, its evaluate_request call: where it stands and what it did
    nextOid,     \* the number of the next object allocated
    stats,       \* how many calls began, returned and raised, and how many callbacks were registered
    view,        \* the list the latest get_entries or get_alerts returned, as its caller holds it
    logOut,      \* the latest direct AuditLog.log: its arguments and the entry it returned
    auditOps,    \* how many direct log calls, get calls and changes to a returned list were made
    http,        \* the proxy's latest chat-completions request: its body, the call it made, its response
    held         \* the results of direct evaluate calls since the latest load, as their callers hold them

engineVars == <<policy, loadOut, evalOut, loads>>
cacheVars == <<cacheFile, cache, sets, getOut>>
pipeVars == <<classifier, entries, callbacks, call, nextOid, stats>>
auditVars == <<view, logOut, auditOps>>
proxyVars == <<http>>
callerVars == <<held>>
vars == <<engineVars, cacheVars, pipeVars, auditVars, proxyVars, callerVars>>

Threads == 1..NumThreads

\* The threads of a program that calls the interceptor concurrently.
AllThreads == 1..MaxThreads

\* ------------------------------------------------------- IntentClassifier

\* The categories the classifier is configured with (the demo passes the
\* policy's categories).
ClassifierCategories == PolicyCategories

\* A JSON number, and a JSON value float() refuses.
JNum(n) == [num |-> TRUE, n |-> n]
JText == [num |-> FALSE, n |-> 0]

\* What the classification service can answer: the call raising, a text that
\* is not JSON, or a JSON object (a function from its keys).
SvcRaise == [kind |-> "raise", json |-> None]
SvcMalformed == [kind |-> "text", json |-> None]
SvcJson(obj) == [kind |-> "text", json |-> Some(obj)]

SvcResponses ==
    { SvcRaise, SvcMalformed,
      SvcJson([confidence |-> JNum(50)]),
      SvcJson([category |-> "summarization"]),
      SvcJson([category |-> "summarization", confidence |-> JText]),
      SvcJson([category |-> "poetry", confidence |-> JNum(88)]),
      SvcJson([category |-> "summarization", confidence |-> JNum(88)]),
      SvcJson([category |-> "missile_defense", confidence |-> JNum(150)]),
      SvcJson([category |-> "bulk_surveillance", confidence |-> JNum(97)]) }

\* The body of classify's try block from the service call on: the parsed
\* [category, confidence], or the exception raised on the way.
ParseResponse(resp) ==
    IF resp.kind = "raise" THEN Raised("APIError", <<>>)
    ELSE IF IsNone(resp.json) THEN Raised("JSONDecodeError", <<>>)
    ELSE LET parsed == Get(resp.json)
         IN  IF "category" \notin DOMAIN parsed THEN Raised("KeyError", <<"category">>)
             ELSE IF "confidence" \notin DOMAIN parsed THEN Raised("KeyError", <<"confidence">>)
             ELSE IF ~parsed.confidence.num THEN Raised("ValueError", <<"float">>)
             ELSE Returned([category |-> parsed.category, confidence |-> parsed.confidence.n])

\* The fallback result falling back on the first configured category.
UnclassifiedAsFirstCategory(prompt, oid) ==
    ClassificationResult(oid, ClassifierCategories[1], 0, prompt)

\* The "unclassified" result of classify's fallback paths.
Unclassified(prompt, oid) == ClassificationResult(oid, "unclassified", 0, prompt)

\* classify's handler catching the service's errors only: a parsing error
\* leaves classify.
ClassifyExceptApiOnly(err, prompt, oid) ==
    IF err.kind = "APIError" THEN Returned(Unclassified(prompt, oid))
    ELSE [value |-> None, error |-> Some(err)]

\* classify's handler, "except Exception": whatever the try block raised,
\* the fallback result is returned.
ClassifyExcept(err, prompt, oid) == Returned(Unclassified(prompt, oid))

\* ClassifyResponse never asking for the result to be stored.
ClassifyResponseNoStore(categories, prompt, resp, oid) ==
    [out |-> IF DidRaise(ParseResponse(resp)) \/ ~InList(Get(ParseResponse(resp).value).category, categories)
             THEN Returned(Unclassified(prompt, oid))
             ELSE Returned(ClassificationResult(oid, Get(ParseResponse(resp).value).category,
                                                Get(ParseResponse(resp).value).confidence, prompt)),
     store |-> FALSE]

\* ClassifyResponse asking for every result to be stored, the fallback
\* result too.
ClassifyResponseStoreAll(categories, prompt, resp, oid) ==
    [out |-> IF DidRaise(ParseResponse(resp)) \/ ~InList(Get(ParseResponse(resp).value).category, categories)
             THEN Returned(Unclassified(prompt, oid))
             ELSE Returned(ClassificationResult(oid, Get(ParseResponse(resp).value).category,
                                                Get(ParseResponse(resp).value).confidence, prompt)),
     store |-> TRUE]

\* classify after a cache miss, the service having answered resp: what
\* classify returns (or raises), and whether the result is stored in the
\* cache (when one is attached).
ClassifyResponse(categories, prompt, resp, oid) ==
    LET parsed == ParseResponse(resp)
    IN  IF DidRaise(parsed)
        THEN [out |-> ClassifyExcept(Get(parsed.error), prompt, oid), store |-> FALSE]
        ELSE IF ~InList(Get(parsed.value).category, categories)
        THEN [out |-> Returned(Unclassified(prompt, oid)), store |-> FALSE]
        ELSE [out |-> Returned(ClassificationResult(oid, Get(parsed.value).category,
                                                    Get(parsed.value).confidence, prompt)),
              store |-> TRUE]

\* classify looking the raw prompt up, not its normal form.
ClassifyLookupRawKey(cl, c, prompt) ==
    IF cl.has_cache THEN DictGet(c, prompt) ELSE None

\* classify's first lines: the cached result when a cache is attached and
\* holds one, None on a miss or without a cache.
ClassifyLookup(cl, c, prompt) ==
    IF cl.has_cache THEN CacheGet(c, prompt) ELSE None

\* ------------------------------------------------------------- AuditLog

\* log putting the newest entry first.
AuditLogLogNewestFirst(es, prompt, classification, evaluation, id) ==
    <<AuditEntry(id, prompt, classification, evaluation)>> \o es

\* log skipping an evaluation the log already holds.
AuditLogLogOnce(es, prompt, classification, evaluation, id) ==
    IF \E i \in DOMAIN es : es[i].evaluation = evaluation THEN es
    ELSE Append(es, AuditEntry(id, prompt, classification, evaluation))

\* AuditLog.log: the entries after the append; the uuid4 of the new entry
\* is modelled as the number of the allocation.
AuditLogLog(es, prompt, classification, evaluation, id) ==
    Append(es, AuditEntry(id, prompt, classification, evaluation))

\* A Python list as its holder sees it: the items, and whether it is the
\* log's own list object (self.entries) or another list.
ListObject(live, items) == [live |-> live, items |-> items]

\* get_entries handing out self.entries itself.
GetEntriesLive(es) == ListObject(TRUE, es)

\* AuditLog.get_entries: list(self.entries), a new list with the same
\* items.
GetEntries(es) == ListObject(FALSE, es)

\* Python's truth value of a list.
Truthy(lst) == Len(lst) > 0

\* get_alerts keeping the entries of blocked requests.
RECURSIVE GetAlertsBlockedFrom(_, _)
GetAlertsBlockedFrom(es, i) ==
    IF i > Len(es) THEN <<>>
    ELSE (IF es[i].evaluation.decision = "BLOCK" THEN <<es[i]>> ELSE <<>>)
         \o GetAlertsBlockedFrom(es, i + 1)
GetAlertsBlockedOnly(es) == ListObject(FALSE, GetAlertsBlockedFrom(es, 1))

\* The list comprehension of get_alerts from entry i on.
RECURSIVE GetAlertsFrom(_, _)
GetAlertsFrom(es, i) ==
    IF i > Len(es) THEN <<>>
    ELSE (IF Truthy(es[i].evaluation.alerts) THEN <<es[i]>> ELSE <<>>)
         \o GetAlertsFrom(es, i + 1)

\* AuditLog.get_alerts: a new list of the entries whose evaluation has
\* alerts.
GetAlerts(es) == ListObject(FALSE, GetAlertsFrom(es, 1))

\* --------------------------------------------------- FirebreakInterceptor

\* The events evaluate_request emits, and one it never emits.
PipelineEvents == {"prompt_received", "classified", "evaluated", "response", "blocked", "alert"}
EventNames == PipelineEvents \cup {"other"}

\* What a registered callback does when called.
Behaviours == {"ok", "raise"}

\* What the downstream model call can do: return a text, return no content
\* block (response.content[0] fails), or raise.
LlmResponses == {[kind |-> "text", text |-> "reply"], [kind |-> "empty", text |-> ""], [kind |-> "raise", text |-> ""]}

\* The prompts evaluate_request is called with: two that share a cache key
\* and one that does not.
PipelinePrompts == {<<"a">>, <<"A", " ">>, <<"a", "a">>}

\* The sources the pipeline's engine loads.
PipelineDocs ==
    { Doc(<<RawAllow, RawConstrain, RawBlock>>),
      Doc(<<RawLate>>),
      YMap([policy |-> PolicyHeader, rules |-> YList(<<>>)]) }

\* A call that has not begun.
IdleCall ==
    [pc |-> "idle", prompt |-> <<>>, classification |-> None, evaluation |-> None,
     events |-> <<>>, invoked |-> <<>>, svc |-> <<>>, llm |-> <<>>, hit |-> FALSE,
     logged |-> 0, error |-> None]

\* The state a call works on: the call's own record and the shared objects
\* it changes.
Frame(t) ==
    [c |-> call[t], cache |-> cache, sets |-> sets, entries |-> entries, nextOid |-> nextOid]

\* _emit's loop calling the callbacks newest first.
RECURSIVE EmitFromNewestFirst(_, _, _)
EmitFromNewestFirst(F, event, i) ==
    IF i > Len(callbacks[event]) THEN F
    ELSE LET cb == callbacks[event][Len(callbacks[event]) + 1 - i]
             called == [F EXCEPT !.c.invoked = Append(@, [event |-> event, callback |-> cb.id])]
         IN  IF cb.behaviour = "raise"
             THEN [called EXCEPT !.c.pc = "raised",
                                 !.c.error = Some([kind |-> "CallbackError", msg |-> <<event>>])]
             ELSE EmitFromNewestFirst(called, event, i + 1)

\* _emit's loop from callback i on: each callback is called in turn; one
\* that raises ends the loop and the call.
RECURSIVE EmitFrom(_, _, _)
EmitFrom(F, event, i) ==
    IF i > Len(callbacks[event]) THEN F
    ELSE LET cb == callbacks[event][i]
             called == [F EXCEPT !.c.invoked = Append(@, [event |-> event, callback |-> cb.id])]
         IN  IF cb.behaviour = "raise"
             THEN [called EXCEPT !.c.pc = "raised",
                                 !.c.error = Some([kind |-> "CallbackError", msg |-> <<event>>])]
             ELSE EmitFrom(called, event, i + 1)

\* Emit catching what a callback raises: the call goes on.
EmitSwallowing(F, event, data) ==
    IF F.c.pc # "running" THEN F
    ELSE [EmitFrom([F EXCEPT !.c.events = Append(@, [name |-> event, data |-> data])], event, 1)
             EXCEPT !.c.pc = "running", !.c.error = None]

\* self._emit(event, data), unless the call has already raised.
Emit(F, event, data) ==
    IF F.c.pc # "running" THEN F
    ELSE EmitFrom([F EXCEPT !.c.events = Append(@, [name |-> event, data |-> data])], event, 1)

\* The alert loop run for blocked requests only.
RECURSIVE EmitAlertsBlockedOnly(_, _)
EmitAlertsBlockedOnly(F, i) ==
    IF F.c.pc # "running" \/ i > Len(Get(F.c.evaluation).alerts)
       \/ Get(F.c.evaluation).decision # "BLOCK" THEN F
    ELSE EmitAlertsBlockedOnly(Emit(F, "alert", [target |-> Get(F.c.evaluation).alerts[i],
                                                 evaluation |-> Get(F.c.evaluation)]),
                               i + 1)

\* The loop over evaluation.alerts from target i on.
RECURSIVE EmitAlerts(_, _)
EmitAlerts(F, i) ==
    IF F.c.pc # "running" \/ i > Len(Get(F.c.evaluation).alerts) THEN F
    ELSE EmitAlerts(Emit(F, "alert", [target |-> Get(F.c.evaluation).alerts[i],
                                      evaluation |-> Get(F.c.evaluation)]),
                    i + 1)

\* LogStage logging only the requests that were forwarded.
LogStageForwardedOnly(F) ==
    IF F.c.pc # "running" \/ Get(F.c.evaluation).decision = "BLOCK" THEN F
    ELSE [F EXCEPT !.entries = AuditLogLog(@, F.c.prompt, Get(F.c.classification),
                                           Get(F.c.evaluation), F.nextOid),
                   !.nextOid = @ + 1,
                   !.c.logged = @ + 1]

\* LogStage taking the classification from the cache when it holds one for
\* the prompt.
LogStageFromCache(F) ==
    IF F.c.pc # "running" THEN F
    ELSE [F EXCEPT !.entries = AuditLogLog(@, F.c.prompt,
                                           IF IsSome(CacheGet(F.cache, F.c.prompt))
                                           THEN Get(CacheGet(F.cache, F.c.prompt))
                                           ELSE Get(F.c.classification),
                                           Get(F.c.evaluation), F.nextOid),
                   !.nextOid = @ + 1,
                   !.c.logged = @ + 1]

\* Step 8: self.audit_log.log(prompt, classification, evaluation).
LogStage(F) ==
    IF F.c.pc # "running" THEN F
    ELSE [F EXCEPT !.entries = AuditLogLog(@, F.c.prompt, Get(F.c.classification),
                                           Get(F.c.evaluation), F.nextOid),
                   !.nextOid = @ + 1,
                   !.c.logged = @ + 1]

\* Step 9: return evaluation.
ReturnStage(F) ==
    IF F.c.pc # "running" THEN F ELSE [F EXCEPT !.c.pc = "returned"]

\* Finish appending to the audit log before the alerts are emitted.
FinishLogFirst(F) == ReturnStage(EmitAlerts(LogStage(F), 1))

\* evaluate_request from the alert loop to the end.
Finish(F) == ReturnStage(LogStage(EmitAlerts(F, 1)))

\* Step 4: self.policy_engine.evaluate(...); a RuntimeError ends the call.
EvaluateStage(F) ==
    IF F.c.pc # "running" THEN F
    ELSE LET out == Evaluate(policy, Get(F.c.classification).intent_category,
                             Get(F.c.classification), F.nextOid)
         IN  IF DidRaise(out)
             THEN [F EXCEPT !.c.pc = "raised", !.c.error = out.error]
             ELSE [F EXCEPT !.c.evaluation = out.value, !.nextOid = @ + 1]

\* Forwards holding of every decision: a blocked request is forwarded too.
ForwardsAnyDecision(decision) == decision \in Decision

\* Forwards testing for ALLOW alone: a constrained request is not forwarded.
ForwardsAllowOnly(decision) == decision = "ALLOW"

\* Whether evaluate_request forwards a request with this decision.
Forwards(decision) == decision \in {"ALLOW", "ALLOW_CONSTRAINED"}

\* DecisionStage writing the audit entry of an allowed request before the
\* downstream call, the response arriving after it.
DecisionStageLogFirst(F) ==
    IF F.c.pc # "running" THEN F
    ELSE IF Forwards(Get(F.c.evaluation).decision)
    THEN [LogStage(F) EXCEPT !.c.pc = "llm_wait",
                             !.c.llm = Append(@, [prompt |-> F.c.prompt, resp |-> None])]
    ELSE Finish(Emit(F, "blocked", Get(F.c.evaluation)))

\* Steps 6/7 up to the downstream call: an allowed request waits for the
\* model, a blocked one emits "blocked" and runs to the end.
DecisionStage(F) ==
    IF F.c.pc # "running" THEN F
    ELSE IF Forwards(Get(F.c.evaluation).decision)
    THEN [F EXCEPT !.c.pc = "llm_wait", !.c.llm = Append(@, [prompt |-> F.c.prompt, resp |-> None])]
    ELSE Finish(Emit(F, "blocked", Get(F.c.evaluation)))

\* evaluate_request from step 3 on, the classification being known.
AfterClassify(F) ==
    LET classified == Emit(F, "classified", Get(F.c.classification))
        evaluated == EvaluateStage(classified)
    IN  DecisionStage(IF evaluated.c.pc # "running" THEN evaluated
                      ELSE Emit(evaluated, "evaluated", Get(evaluated.c.evaluation)))

\* Steps 1 and 2 up to the service call: a cache hit goes on at once, a
\* miss waits for the classification service.
BeginCall(F, prompt) ==
    LET received == Emit([F EXCEPT !.c = [IdleCall EXCEPT !.pc = "running", !.prompt = prompt]],
                         "prompt_received", prompt)
        cached == ClassifyLookup(classifier, received.cache, prompt)
    IN  IF received.c.pc # "running" THEN received
        ELSE IF IsSome(cached)
        THEN AfterClassify([received EXCEPT !.c.classification = cached, !.c.hit = TRUE])
        ELSE [received EXCEPT !.c.pc = "svc_wait",
                              !.c.svc = Append(@, [prompt |-> prompt, resp |-> None])]

\* classify when the service has answered, then the rest of the call.
ServiceAnswered(F, resp) ==
    LET r == ClassifyResponse(classifier.categories, F.c.prompt, resp, F.nextOid)
        answered == [F EXCEPT !.c.svc[Len(F.c.svc)].resp = Some(resp)]
    IN  IF DidRaise(r.out)
        THEN [answered EXCEPT !.c.pc = "raised", !.c.error = r.out.error]
        ELSE AfterClassify([answered EXCEPT
                                !.c.pc = "running",
                                !.c.classification = r.out.value,
                                !.nextOid = @ + 1,
                                !.cache = IF r.store /\ classifier.has_cache
                                          THEN CacheSet(@, F.c.prompt, Get(r.out.value)) ELSE @,
                                !.sets = IF r.store /\ classifier.has_cache
                                         THEN Append(@, [prompt |-> F.c.prompt,
                                                         result |-> Get(r.out.value)])
                                         ELSE @])

\* LlmText without the sentinel: a failed call leaves the empty text.
LlmTextNoSentinel(resp) == resp.text

\* The text the downstream call leaves in llm_response: the model's, or
\* the sentinel when anything in the try block raised.
LlmText(resp) == IF resp.kind = "text" THEN resp.text ELSE "[LLM call failed]"

\* ModelAnswered trying the downstream call a second time when the first
\* raised.
ModelAnsweredRetry(F, resp) ==
    IF resp.kind = "raise" /\ Len(F.c.llm) = 1
    THEN [F EXCEPT !.c.llm = Append([@ EXCEPT ![1].resp = Some(resp)],
                                    [prompt |-> F.c.prompt, resp |-> None])]
    ELSE LET answered == [F EXCEPT !.c.pc = "running",
                                   !.c.llm[Len(F.c.llm)].resp = Some(resp),
                                   !.c.evaluation = Some([Get(@) EXCEPT !.llm_response = Some(LlmText(resp))])]
         IN  Finish(Emit(answered, "response", Get(answered.c.evaluation)))

\* Step 6 when the downstream call has ended, then the rest of the call.
ModelAnswered(F, resp) ==
    LET answered == [F EXCEPT !.c.pc = "running",
                              !.c.llm[Len(F.c.llm)].resp = Some(resp),
                              !.c.evaluation = Some([Get(@) EXCEPT !.llm_response = Some(LlmText(resp))])]
    IN  Finish(Emit(answered, "response", Get(answered.c.evaluation)))

\* The variables a frame holds, after a step of thread t.
Commit(t, F) ==
    /\ call' = [call EXCEPT ![t] = F.c]
    /\ cache' = F.cache
    /\ sets' = F.sets
    /\ entries' = F.entries
    /\ nextOid' = F.nextOid
    /\ stats' = [stats EXCEPT !.began = IF call[t].pc = "idle" THEN @ + 1 ELSE @,
                              !.returned = IF F.c.pc = "returned" THEN @ + 1 ELSE @,
                              !.raised = IF F.c.pc = "raised" THEN @ + 1 ELSE @]

\* --------------------------------------------------------------- actions

\* The policy engine after construction.
InitEngine ==
    /\ policy = None
    /\ loadOut = None
    /\ evalOut = None
    /\ loads = 0

\* A cache constructed from one of the given files.
InitCache(files) ==
    /\ cacheFile \in files
    /\ cache = NewCache(cacheFile)
    /\ sets = <<>>
    /\ getOut = None

\* The classifier, the audit log and the interceptor after construction;
\* the classifier has the cache attached or not.
InitPipe(attached) ==
    /\ classifier \in [categories : {ClassifierCategories}, has_cache : attached]
    /\ entries = <<>>
    /\ callbacks = [e \in EventNames |-> <<>>]
    /\ call = [t \in AllThreads |-> IdleCall]
    /\ nextOid = 1
    /\ stats = [began |-> 0, returned |-> 0, raised |-> 0, registered |-> 0]

\* No operation has been called on the audit log directly.
InitAudit ==
    /\ view = None
    /\ logOut = None
    /\ auditOps = [logs |-> 0, gets |-> 0, mutations |-> 0]

\* The proxy has not been sent a request.
InitProxy ==
    http = [n |-> 0, body |-> None, prompt |-> None, calls |-> 0,
            evaluation |-> None, response |-> None]

\* No caller holds a result of evaluate.
InitCallers == held = [results |-> <<>>, mutations |-> 0]

\* Load adding the new policy's rules after the rules already loaded.
LoadMerging(data) ==
    LET out == LoadPolicy(data)
    IN  /\ loadOut' = Some([data |-> data, out |-> out])
        /\ policy' = IF ~DidReturn(out) THEN policy
                     ELSE IF IsNone(policy) THEN out.value
                     ELSE Some([Get(out.value) EXCEPT !.rules = Get(policy).rules \o @])
        /\ loads' = loads + 1

\* engine.load(path), the file at path parsing to `data`: self.policy is
\* assigned only when nothing raised.
Load(data) ==
    LET out == LoadPolicy(data)
    IN  /\ loadOut' = Some([data |-> data, out |-> out])
        /\ policy' = IF DidReturn(out) THEN out.value ELSE policy
        /\ loads' = loads + 1

\* engine.evaluate(intent_category, classification), called directly.
DirectEvaluate(intent_category, classification) ==
    /\ evalOut' = Some([intent_category |-> intent_category,
                        classification |-> classification,
                        out |-> Evaluate(policy, intent_category, classification, nextOid)])
    /\ UNCHANGED <<policy, loadOut, loads>>

\* ------------------------------------------------- the policy engine alone

\* The categories evaluate is called with: the policy's own, the
\* classifier's fallback, the empty string and one no source mentions.
EvalCategories ==
    {"summarization", "translation", "missile_defense", "bulk_surveillance",
     "unclassified", "", "poetry"}

\* The classifications evaluate is called with.
EvalClassifications ==
    { ClassificationResult(201, "summarization", 95, <<"a">>),
      ClassificationResult(202, "unclassified", 0, <<"a", "a">>) }

EngineLoad ==
    /\ loads < MaxEngineLoads
    /\ \E data \in AllDocs : Load(data)
    /\ evalOut' = None
    /\ UNCHANGED <<cacheVars, pipeVars, auditVars, proxyVars, callerVars>>

\* One evaluate is tried on each state of the engine (an evaluate changes
\* nothing a later evaluate reads).
EngineEvaluate ==
    /\ evalOut = None
    /\ \E c \in EvalCategories, cl \in EvalClassifications : DirectEvaluate(c, cl)
    /\ UNCHANGED <<cacheVars, pipeVars, auditVars, proxyVars, callerVars>>

InitEngineAlone == InitEngine /\ InitCache({None}) /\ InitPipe({FALSE}) /\ InitAudit /\ InitProxy /\ InitCallers

NextEngine == EngineLoad \/ EngineEvaluate

\* The policy engine driven directly: loads and evaluations in any order.
SpecEngine == InitEngineAlone /\ [][NextEngine]_vars

\* --------------------------------------------------------- the cache alone

\* cache.set(prompt, result), called directly.
DirectSet ==
    /\ Len(sets) < MaxSets
    /\ \E p \in Prompts :
          /\ cache' = CacheSet(cache, p, CacheValue(Len(sets) + 1))
          /\ sets' = Append(sets, [prompt |-> p, result |-> CacheValue(Len(sets) + 1)])
    /\ getOut' = None
    /\ UNCHANGED <<cacheFile, engineVars, pipeVars, auditVars, proxyVars, callerVars>>

\* cache.get(prompt), called directly; one get is tried on each state of
\* the cache (a get changes nothing a later get reads).
DirectGet ==
    /\ getOut = None
    /\ \E q \in Prompts : getOut' = Some([prompt |-> q, out |-> CacheGet(cache, q)])
    /\ UNCHANGED <<cacheFile, cache, sets, engineVars, pipeVars, auditVars, proxyVars, callerVars>>

InitCacheAlone == InitEngine /\ InitCache(CacheFiles) /\ InitPipe({FALSE}) /\ InitAudit /\ InitProxy /\ InitCallers

NextCache == DirectSet \/ DirectGet

\* A cache driven directly: sets and gets in any order.
SpecCache == InitCacheAlone /\ [][NextCache]_vars

\* ------------------------------------------------------------ the pipeline
\* engine.load between calls.
PipeLoad ==
    /\ loads < MaxLoads
    /\ \A t \in AllThreads : call[t].pc = "idle"
    /\ \E data \in PipelineDocs : Load(data)
    /\ UNCHANGED <<evalOut, cacheVars, pipeVars, auditVars, proxyVars, callerVars>>

\* interceptor.on(event, callback), called at most limit times: the callback
\* is appended to the event's list.
Register(limit) ==
    /\ stats.registered < limit
    /\ \A t \in AllThreads : call[t].pc = "idle"
    /\ \E event \in EventNames, b \in Behaviours :
          callbacks' = [callbacks EXCEPT ![event] =
                           Append(@, [id |-> stats.registered + 1, behaviour |-> b])]
    /\ stats' = [stats EXCEPT !.registered = @ + 1]
    /\ UNCHANGED <<engineVars, cacheFile, sets, getOut, cache, classifier, entries, call, nextOid, auditVars, proxyVars, callerVars>>

\* interceptor.on in the pipeline at large.
On == Register(MaxCallbacks)

\* interceptor.evaluate_request(prompt) up to the first outbound call.
Begin(t) ==
    /\ call[t].pc = "idle"
    /\ stats.began < MaxCalls
    /\ \E prompt \in PipelinePrompts : Commit(t, BeginCall(Frame(t), prompt))
    /\ UNCHANGED <<engineVars, cacheFile, getOut, classifier, callbacks, auditVars, proxyVars, callerVars>>

\* The classification service answers thread t's call.
ServiceReturns(t) ==
    /\ call[t].pc = "svc_wait"
    /\ \E resp \in SvcResponses : Commit(t, ServiceAnswered(Frame(t), resp))
    /\ UNCHANGED <<engineVars, cacheFile, getOut, classifier, callbacks, auditVars, proxyVars, callerVars>>

\* The downstream model answers thread t's call.
ModelReturns(t) ==
    /\ call[t].pc = "llm_wait"
    /\ \E resp \in LlmResponses : Commit(t, ModelAnswered(Frame(t), resp))
    /\ UNCHANGED <<engineVars, cacheFile, getOut, classifier, callbacks, auditVars, proxyVars, callerVars>>

\* The caller takes the result (or the exception) of thread t's call.
Complete(t) ==
    /\ call[t].pc \in {"returned", "raised"}
    /\ call' = [call EXCEPT ![t] = IdleCall]
    /\ UNCHANGED <<engineVars, cacheVars, classifier, entries, callbacks, nextOid, stats, auditVars, proxyVars, callerVars>>

Init == InitEngine /\ InitCache(CacheFiles) /\ InitPipe(BOOLEAN) /\ InitAudit /\ InitProxy /\ InitCallers

Next ==
    \/ PipeLoad
    \/ On
    \/ \E t \in Threads : Begin(t)
    \/ \E t \in Threads : ServiceReturns(t)
    \/ \E t \in Threads : ModelReturns(t)
    \/ \E t \in Threads : Complete(t)

\* The pipeline: policy loads, callback registrations and evaluate_request
\* calls.
Spec == Init /\ [][Next]_vars

\* ------------------------------------------------- the audit log's callers

\* The policy whose results are logged directly.
LoggedPolicy == LoadPolicy(Doc(<<RawAllow, RawConstrain, RawBlock>>)).value

\* What log is called with directly: a prompt, a classification and an
\* evaluation of each decision, with and without alerts.
LogInputs ==
    { [prompt |-> <<"a">>,
       classification |-> ClassificationResult(201, "summarization", 95, <<"a">>),
       evaluation |-> Get(Evaluate(LoggedPolicy, cat[1],
                                   ClassificationResult(201, "summarization", 95, <<"a">>),
                                   cat[2]).value)] :
        cat \in {<<"summarization", 301>>, <<"missile_defense", 302>>, <<"poetry", 303>>} }

\* What a caller does to a list it was handed.
Mutations == {"append", "remove", "reverse"}

\* An entry that was never logged.
ForeignEntry == AuditEntry(0, <<>>, Unclassified(<<>>, 0), DefaultResult(Unclassified(<<>>, 0), 0))

\* A list after lst.append(x), del lst[0] or lst.reverse().
Mutated(items, kind) ==
    IF kind = "append" THEN Append(items, ForeignEntry)
    ELSE IF kind = "remove" THEN Tail(items)
    ELSE [i \in DOMAIN items |-> items[Len(items) + 1 - i]]

\* audit_log.log(prompt, classification, evaluation), called directly
\* between two evaluate_request calls.
DirectLog ==
    /\ auditOps.logs < MaxLogs
    /\ \A t \in AllThreads : call[t].pc = "idle"
    /\ \E in \in LogInputs :
          /\ entries' = AuditLogLog(entries, in.prompt, in.classification, in.evaluation, nextOid)
          /\ logOut' = Some([prompt |-> in.prompt, classification |-> in.classification,
                             evaluation |-> in.evaluation,
                             entry |-> entries'[Len(entries')]])
    /\ nextOid' = nextOid + 1
    /\ auditOps' = [auditOps EXCEPT !.logs = @ + 1]
    /\ UNCHANGED <<engineVars, cacheVars, classifier, callbacks, call, stats, view, proxyVars, callerVars>>

\* audit_log.get_entries()
CallGetEntries ==
    /\ auditOps.gets < MaxGets
    /\ \A t \in AllThreads : call[t].pc = "idle"
    /\ view' = Some([op |-> "get_entries", list |-> GetEntries(entries), mutated |-> FALSE])
    /\ auditOps' = [auditOps EXCEPT !.gets = @ + 1]
    /\ UNCHANGED <<engineVars, cacheVars, pipeVars, logOut, proxyVars, callerVars>>

\* audit_log.get_alerts()
CallGetAlerts ==
    /\ auditOps.gets < MaxGets
    /\ \A t \in AllThreads : call[t].pc = "idle"
    /\ view' = Some([op |-> "get_alerts", list |-> GetAlerts(entries), mutated |-> FALSE])
    /\ auditOps' = [auditOps EXCEPT !.gets = @ + 1]
    /\ UNCHANGED <<engineVars, cacheVars, pipeVars, logOut, proxyVars, callerVars>>

\* The caller changes the list it was handed; when that list is the log's
\* own, the log's entries change with it.
MutateView ==
    /\ IsSome(view)
    /\ auditOps.mutations < MaxMutations
    /\ \A t \in AllThreads : call[t].pc = "idle"
    /\ \E kind \in Mutations :
          /\ kind = "remove" => Get(view).list.items # <<>>
          /\ view' = Some([Get(view) EXCEPT !.list.items = Mutated(@, kind), !.mutated = TRUE])
          /\ entries' = IF Get(view).list.live THEN Mutated(entries, kind) ELSE entries
    /\ auditOps' = [auditOps EXCEPT !.mutations = @ + 1]
    /\ UNCHANGED <<engineVars, cacheVars, classifier, callbacks, call, nextOid, stats, logOut, proxyVars, callerVars>>

\* evaluate_request, called a bounded number of times beside the direct
\* calls.
AuditedCall ==
    /\ stats.began < MaxAuditCalls
    /\ \E t \in Threads : Begin(t)

InitAuditAlone == InitEngine /\ InitCache({None}) /\ InitPipe({FALSE}) /\ InitAudit /\ InitProxy /\ InitCallers

NextAudit ==
    \/ PipeLoad
    \/ AuditedCall
    \/ \E t \in Threads : ServiceReturns(t)
    \/ \E t \in Threads : ModelReturns(t)
    \/ \E t \in Threads : Complete(t)
    \/ DirectLog
    \/ CallGetEntries
    \/ CallGetAlerts
    \/ MutateView

\* The audit log with all its writers and readers: evaluate_request calls,
\* direct log calls, get_entries and get_alerts, and callers changing the
\* lists they were handed.
SpecAudit == InitAuditAlone /\ [][NextAudit]_vars

\* ------------------------------------------------------------ the observers

\* interceptor.on where several callbacks are registered, on one event or
\* on several.
Subscribe == Register(MaxObservers)

InitObservers == InitEngine /\ InitCache({None}) /\ InitPipe({TRUE}) /\ InitAudit /\ InitProxy /\ InitCallers

NextObservers ==
    \/ PipeLoad
    \/ Subscribe
    \/ \E t \in Threads : Begin(t)
    \/ \E t \in Threads : ServiceReturns(t)
    \/ \E t \in Threads : ModelReturns(t)
    \/ \E t \in Threads : Complete(t)

\* The interceptor with several observers: registrations between
\* evaluate_request calls.
SpecObservers == InitObservers /\ [][NextObservers]_vars

\* ---------------------------------------------------- concurrent requests

InitConcurrent == InitEngine /\ InitCache({None}) /\ InitPipe({TRUE}) /\ InitAudit /\ InitProxy /\ InitCallers

NextConcurrent ==
    \/ PipeLoad
    \/ \E t \in AllThreads : Begin(t)
    \/ \E t \in AllThreads : ServiceReturns(t)
    \/ \E t \in AllThreads : ModelReturns(t)
    \/ \E t \in AllThreads : Complete(t)

\* One interceptor called from several threads: the calls interleave at
\* their outbound calls, where a thread waits and another runs.
SpecConcurrent == InitConcurrent /\ [][NextConcurrent]_vars

\* ------------------------------------------------- a cache from a file

\* Cache files written for another set of categories: a key in normal form
\* with a category the classifier is not configured with.
StaleCacheFiles ==
    { Some(<< [key |-> <<"a">>, category |-> "poetry", confidence |-> 88] >>),
      Some(<< [key |-> <<"a">>, category |-> "poetry", confidence |-> 88],
              [key |-> <<"a", "a">>, category |-> "summarization", confidence |-> 97] >>) }

InitBootstrap ==
    InitEngine /\ InitCache(StaleCacheFiles) /\ InitPipe({TRUE}) /\ InitAudit /\ InitProxy /\ InitCallers

NextBootstrap ==
    \/ PipeLoad
    \/ \E t \in Threads : Begin(t)
    \/ \E t \in Threads : ServiceReturns(t)
    \/ \E t \in Threads : ModelReturns(t)
    \/ \E t \in Threads : Complete(t)

\* The pipeline with a classifier whose cache was filled from a file.
SpecBootstrap == InitBootstrap /\ [][NextBootstrap]_vars

\* ------------------------------------------------- callers of the engine

\* A rule that allows at the highest audit level and asks for human review.
RawWatched ==
    YMap([id |-> "allow-watched", description |-> "Reviewed analysis",
          match_categories |-> <<"summarization", "translation">>,
          decision |-> "ALLOW", audit |-> "critical", requires_human |-> TRUE,
          alerts |-> <<"oversight">>, constraints |-> <<"human_in_loop">>])

\* The sources loaded where the engine's callers are looked at.
CallerDocs == {Doc(<<RawAllow, RawConstrain, RawBlock>>), Doc(<<RawWatched, RawBlock>>)}

\* The categories and the metadata argument of the direct evaluate calls;
\* evaluate never reads metadata.
CallerCategories == {"missile_defense", "translation", "poetry"}
CallerMetadata == {None, Some("session-7")}

\* A list of strings after lst.append(x), del lst[0] or lst.reverse().
MutatedTargets(items, kind) ==
    IF kind = "append" THEN Append(items, "tampered")
    ELSE IF kind = "remove" THEN Tail(items)
    ELSE [i \in DOMAIN items |-> items[Len(items) + 1 - i]]

\* The rule's own list put into the result.
SameList(items) == ListObject(TRUE, items)

\* list(rule.alerts), list(rule.constraints): a new list with the items.
CopyList(items) == ListObject(FALSE, items)

\* The alerts and constraints lists of a result, as objects: copies of the
\* lists of rule i, or the new lists of the default result (i = 0).
ResultLists(result, i) ==
    IF i = 0
    THEN [alerts |-> ListObject(FALSE, result.alerts),
          constraints |-> ListObject(FALSE, result.constraints)]
    ELSE [alerts |-> CopyList(result.alerts), constraints |-> CopyList(result.constraints)]

\* engine.load where the engine's callers are looked at; the results held
\* are counted from the latest load.
CallerLoad ==
    /\ loads < MaxLoads
    /\ \A t \in AllThreads : call[t].pc = "idle"
    /\ \E data \in CallerDocs : Load(data)
    /\ held' = [held EXCEPT !.results = <<>>]
    /\ UNCHANGED <<evalOut, cacheVars, pipeVars, auditVars, proxyVars>>

\* engine.evaluate(category, classification, metadata) on a loaded engine,
\* the caller keeping the result (without a policy evaluate raises and
\* nothing changes).
CallEvaluate ==
    /\ IsSome(policy)
    /\ Len(held.results) < MaxHeld
    /\ \E c \in CallerCategories, cl \in EvalClassifications, md \in CallerMetadata :
          LET out == Evaluate(policy, c, cl, nextOid)
              i == ScanRules(Get(policy).rules, 1, c)
          IN  held' = [held EXCEPT !.results =
                          Append(@, [intent_category |-> c, classification |-> cl,
                                     metadata |-> md, out |-> Get(out.value), rule |-> i,
                                     lists |-> ResultLists(Get(out.value), i),
                                     after |-> held.mutations])]
    /\ nextOid' = nextOid + 1
    /\ UNCHANGED <<engineVars, cacheVars, classifier, entries, callbacks, call, stats, auditVars, proxyVars>>

\* A caller changes the alerts or the constraints list of a result it holds;
\* when that list is the rule's own, the rule changes with it.
MutateResult ==
    /\ held.mutations < MaxMutations
    /\ \E i \in DOMAIN held.results, f \in {"alerts", "constraints"}, kind \in Mutations :
          LET r == held.results[i]
          IN  /\ kind = "remove" => r.lists[f].items # <<>>
              /\ held' = [results |-> [held.results EXCEPT ![i].lists[f].items = MutatedTargets(@, kind)],
                          mutations |-> held.mutations + 1]
              /\ policy' = IF r.lists[f].live /\ r.rule # 0
                           THEN Some([Get(policy) EXCEPT !.rules[r.rule][f] = MutatedTargets(@, kind)])
                           ELSE policy
    /\ UNCHANGED <<loadOut, evalOut, loads, cacheVars, pipeVars, auditVars, proxyVars>>

InitCallersAlone == InitEngine /\ InitCache({None}) /\ InitPipe({FALSE}) /\ InitAudit /\ InitProxy /\ InitCallers

NextCallers ==
    \/ CallerLoad
    \/ CallEvaluate
    \/ MutateResult
    \/ AuditedCall
    \/ \E t \in Threads : ServiceReturns(t)
    \/ \E t \in Threads : ModelReturns(t)
    \/ \E t \in Threads : Complete(t)

\* The engine with its callers: direct evaluate calls whose results the
\* callers keep and change, beside an evaluate_request call.
SpecCallers == InitCallersAlone /\ [][NextCallers]_vars

\* ---------------------------------------------------------------- the proxy

\* A request body the JSON parser refuses, and JSON null.
BadJson == [t |-> "invalid"]
JNull == [t |-> "null"]

\* A chat message with a role and a content, and one without content.
Message(role, content) == YMap([role |-> role, content |-> content])
BareMessage(role) == YMap([role |-> role])

\* A request body with the given value under "messages".
Body(messages) == YMap([model |-> "firebreak-proxy", messages |-> messages])

\* The bodies the proxy is sent.
ProxyBodies ==
    { BadJson,
      YList(<<>>),
      YMap([model |-> "firebreak-proxy"]),
      Body(JNull),
      Body(YList(<<>>)),
      Body(YScalar("text")),
      Body(YList(<<Message("system", <<"a">>)>>)),
      Body(YList(<<Message("user", <<"a">>)>>)),
      Body(YList(<<Message("user", <<"a">>), Message("assistant", <<"a", "a">>),
                   Message("user", <<"A", " ">>)>>)),
      Body(YList(<<Message("user", <<"a", "a">>), Message("system", <<"a">>)>>)),
      Body(YList(<<YScalar("text"), Message("user", <<"a">>)>>)),
      Body(YList(<<Message("user", <<"a">>), YScalar("text")>>)),
      Body(YList(<<Message("user", <<"a">>), Message("user", <<>>)>>)),
      Body(YList(<<Message("user", <<"a">>), BareMessage("user")>>)) }

\* Python's "not x" for a parsed JSON value: null, an empty list and an
\* empty string are false.
Falsy(x) ==
    \/ x.t = "null"
    \/ x.t = "list" /\ x.l = <<>>
    \/ x.t = "scalar" /\ x.v = ""

\* A response of the proxy; content is the assistant message of a
\* completion.
JsonResponse(status, type, code, message, content) ==
    [status |-> status, type |-> type, code |-> code, message |-> message, content |-> content]

\* The response Starlette gives when the handler raises.
ServerError == JsonResponse(500, "", "", <<>>, None)

\* The loop over reversed(messages) taking the first user message's content
\* in list order.
RECURSIVE FirstUserContent(_, _)
FirstUserContent(messages, i) ==
    IF i = 0 THEN Returned(<<>>)
    ELSE LET j == Len(messages) + 1 - i
         IN  IF ~IsDict(messages[j]) THEN Raised("AttributeError", <<"get">>)
             ELSE IF GetOr(messages[j], "role", "") = "user"
             THEN Returned(GetOr(messages[j], "content", <<>>))
             ELSE FirstUserContent(messages, i - 1)

\* The loop over reversed(messages), message i being the next: the content
\* of the first user message met (empty when there is none: prompt stays
\* None, which "not prompt" treats like the empty string), or the error
\* msg.get raises on a message that is no mapping.
RECURSIVE LastUserContent(_, _)
LastUserContent(messages, i) ==
    IF i = 0 THEN Returned(<<>>)
    ELSE IF ~IsDict(messages[i]) THEN Raised("AttributeError", <<"get">>)
    ELSE IF GetOr(messages[i], "role", "") = "user"
    THEN Returned(GetOr(messages[i], "content", <<>>))
    ELSE LastUserContent(messages, i - 1)

\* chat_completions up to the call of evaluate_request: the prompt to
\* evaluate, or the response given without evaluating.
Route(body) ==
    IF body.t = "invalid"
    THEN [prompt |-> None,
          response |-> Some(JsonResponse(400, "invalid_request_error", "invalid_json",
                                         <<"Invalid JSON in request body">>, None))]
    ELSE IF ~IsDict(body) THEN [prompt |-> None, response |-> Some(ServerError)]
    ELSE IF Falsy(GetOr(body, "messages", JNull)) \/ ~IsList(GetOr(body, "messages", JNull))
    THEN [prompt |-> None,
          response |-> Some(JsonResponse(400, "invalid_request_error", "invalid_request",
                                         <<"Missing or empty 'messages' array">>, None))]
    ELSE LET found == LastUserContent(Item(body, "messages").l, Len(Item(body, "messages").l))
         IN  IF DidRaise(found) THEN [prompt |-> None, response |-> Some(ServerError)]
             ELSE IF Get(found.value) = <<>>
             THEN [prompt |-> None,
                   response |-> Some(JsonResponse(400, "invalid_request_error", "invalid_request",
                                                  <<"No user message found in 'messages'">>, None))]
             ELSE [prompt |-> found.value, response |-> None]

\* The test for a blocked request taking every decision but ALLOW.
ProxyBlocksUnlessAllow(evaluation) == evaluation.decision # "ALLOW"

\* evaluation.decision == Decision.BLOCK
ProxyBlocks(evaluation) == evaluation.decision = "BLOCK"

\* evaluation.llm_response or ""
ContentOf(evaluation) ==
    IF IsSome(evaluation.llm_response) /\ Get(evaluation.llm_response) # ""
    THEN Get(evaluation.llm_response) ELSE ""

\* chat_completions after evaluate_request returned.
Respond(evaluation) ==
    IF ProxyBlocks(evaluation)
    THEN JsonResponse(400, "policy_violation", "content_policy_violation",
                      <<"Request blocked by policy:", evaluation.matched_rule_id,
                        evaluation.rule_description>>, None)
    ELSE JsonResponse(200, "chat.completion", "", <<>>, Some(ContentOf(evaluation)))

\* A chat-completions request arrives: the handler answers at once, or
\* calls evaluate_request, which runs to its first outbound call.
ProxyRequest ==
    /\ http.n < MaxRequests
    /\ \A t \in AllThreads : call[t].pc = "idle"
    /\ \E body \in ProxyBodies :
          LET r == Route(body)
          IN  /\ http' = [n |-> http.n + 1, body |-> Some(body), prompt |-> r.prompt,
                          calls |-> IF IsSome(r.prompt) THEN 1 ELSE 0,
                          evaluation |-> None, response |-> r.response]
              /\ IF IsSome(r.prompt)
                 THEN Commit(1, BeginCall(Frame(1), Get(r.prompt)))
                 ELSE UNCHANGED <<cache, sets, entries, call, nextOid, stats>>
    /\ UNCHANGED <<engineVars, cacheFile, getOut, classifier, callbacks, auditVars, callerVars>>

\* evaluate_request has ended: the handler builds the response from the
\* evaluation, or the exception leaves the handler.
ProxyRespond ==
    /\ call[1].pc \in {"returned", "raised"}
    /\ http' = [http EXCEPT
                    !.evaluation = IF call[1].pc = "returned" THEN call[1].evaluation ELSE None,
                    !.response = IF call[1].pc = "returned"
                                 THEN Some(Respond(Get(call[1].evaluation)))
                                 ELSE Some(ServerError)]
    /\ call' = [call EXCEPT ![1] = IdleCall]
    /\ UNCHANGED <<engineVars, cacheVars, classifier, entries, callbacks, nextOid, stats, auditVars, callerVars>>

InitProxyAlone == InitEngine /\ InitCache({None}) /\ InitPipe({TRUE}) /\ InitAudit /\ InitProxy /\ InitCallers

NextProxy ==
    \/ PipeLoad
    \/ ProxyRequest
    \/ \E t \in Threads : ServiceReturns(t)
    \/ \E t \in Threads : ModelReturns(t)
    \/ ProxyRespond

\* The proxy in front of the pipeline: chat-completions requests, served
\* one at a time.
SpecProxy == InitProxyAlone /\ [][NextProxy]_vars

\* ------------------------------------------------------------------ claims

\* The rules of the loaded policy, and whether rule i lists category c.
LoadedRules == Get(policy).rules
Lists(rule, c) == \E j \in DOMAIN rule.match_categories : rule.match_categories[j] = c

\* C1. Fail-closed default: with a policy loaded, evaluate on a category that
\* no rule lists returns BLOCK from rule "unknown-intent", at audit level
\* critical, with the single alert target "trust_safety", no constraints
\* and the classification it was given; it never returns an allowing
\* decision for such a category.
C1_FailClosedDefault ==
    (IsSome(evalOut) /\ IsSome(policy)
       /\ \A i \in DOMAIN LoadedRules : ~Lists(LoadedRules[i], Get(evalOut).intent_category))
    => /\ DidReturn(Get(evalOut).out)
       /\ LET r == Get(Get(evalOut).out.value)
          IN  /\ r.decision = "BLOCK"
              /\ r.matched_rule_id = "unknown-intent"
              /\ r.audit_level = "critical"
              /\ r.alerts = <<"trust_safety">>
              /\ r.constraints = <<>>
              /\ r.classification = Get(evalOut).classification

\* C1's case: under a three-rule policy that allows other categories,
\* "unclassified" is listed by no rule and gets the default result.
C1_Witness ==
    /\ IsSome(evalOut) /\ IsSome(policy)
    /\ Len(LoadedRules) = 3
    /\ \E i \in DOMAIN LoadedRules : LoadedRules[i].decision = "ALLOW"
    /\ Get(evalOut).intent_category = "unclassified"
    /\ \A i \in DOMAIN LoadedRules : ~Lists(LoadedRules[i], "unclassified")
    /\ DidReturn(Get(evalOut).out)
    /\ Get(Get(evalOut).out.value).matched_rule_id = "unknown-intent"

\* C2. First match wins: with a policy loaded, evaluate on a category that
\* some rule lists returns the decision, id, description, audit level,
\* alerts, constraints, color and note of the lowest-index rule listing it.
C2_FirstMatchWins ==
    (IsSome(evalOut) /\ IsSome(policy))
    => \A k \in DOMAIN LoadedRules :
          (/\ Lists(LoadedRules[k], Get(evalOut).intent_category)
           /\ \A i \in 1..(k - 1) : ~Lists(LoadedRules[i], Get(evalOut).intent_category))
          => /\ DidReturn(Get(evalOut).out)
             /\ LET r == Get(Get(evalOut).out.value)
                    rule == LoadedRules[k]
                IN  /\ r.decision = rule.decision
                    /\ r.matched_rule_id = rule.id
                    /\ r.rule_description = rule.description
                    /\ r.audit_level = rule.audit
                    /\ r.alerts = rule.alerts
                    /\ r.constraints = rule.constraints
                    /\ r.color = rule.color
                    /\ r.note = rule.note
                    /\ r.classification = Get(evalOut).classification

\* C2's case: a three-rule policy whose second and third rules both list
\* the category, with different ids and decisions, and whose first does
\* not; the second rule's id is returned.
C2_Witness ==
    /\ IsSome(evalOut) /\ IsSome(policy)
    /\ Len(LoadedRules) = 3
    /\ ~Lists(LoadedRules[1], Get(evalOut).intent_category)
    /\ Lists(LoadedRules[2], Get(evalOut).intent_category)
    /\ Lists(LoadedRules[3], Get(evalOut).intent_category)
    /\ LoadedRules[2].id # LoadedRules[3].id
    /\ LoadedRules[2].decision # LoadedRules[3].decision
    /\ DidReturn(Get(evalOut).out)
    /\ Get(Get(evalOut).out.value).matched_rule_id = LoadedRules[2].id

\* ------------------------------------------------ claims on the pipeline

\* How many times a call emitted the event.
CountEvents(c, name) == Cardinality({i \in DOMAIN c.events : c.events[i].name = name})

\* The targets of the "alert" events a call emitted, in order.
RECURSIVE AlertTargetsFrom(_, _)
AlertTargetsFrom(events, i) ==
    IF i > Len(events) THEN <<>>
    ELSE IF events[i].name = "alert"
    THEN <<events[i].data.target>> \o AlertTargetsFrom(events, i + 1)
    ELSE AlertTargetsFrom(events, i + 1)
AlertTargets(c) == AlertTargetsFrom(c.events, 1)

\* Some registered callback raises when called.
SomeCallbackRaises ==
    \E e \in EventNames : \E i \in DOMAIN callbacks[e] : callbacks[e][i].behaviour = "raise"

\* A call ended by an exception that is an observer's, or the engine's
\* refusal to evaluate without a policy: the two ways out of
\* evaluate_request that the interceptor's contract leaves to its caller.
RaisedByObserverOrNoPolicy(c) ==
    \/ Get(c.error).kind = "CallbackError" /\ SomeCallbackRaises
    \/ Get(c.error).kind = "RuntimeError" /\ IsNone(policy)

\* The calls in flight: begun, and neither returned nor raised yet.
InFlight == {t \in Threads : call[t].pc \in {"svc_wait", "llm_wait"}}

\* The entries of the log that hold the evaluation with this oid.
EntriesOf(oid) == {i \in DOMAIN entries : entries[i].evaluation.oid = oid}

\* C3. Audit completeness: every evaluate_request call that runs to its end
\* appends exactly one entry, whatever the decision, so the log holds one
\* entry per returned call; the only calls that append none are those an
\* observer's exception or a missing policy ended.
C3_AuditCompleteness ==
    /\ Len(entries) = stats.returned
    /\ stats.began = stats.returned + stats.raised + Cardinality(InFlight)
    /\ \A t \in Threads :
          LET c == call[t]
          IN  /\ c.pc = "returned"
                 => /\ c.logged = 1
                    /\ Get(c.evaluation).decision \in Decision
                    /\ Cardinality(EntriesOf(Get(c.evaluation).oid)) = 1
                    /\ \A i \in EntriesOf(Get(c.evaluation).oid) :
                          /\ entries[i].prompt_text = c.prompt
                          /\ entries[i].classification = Get(c.classification)
                          /\ entries[i].evaluation = Get(c.evaluation)
              /\ c.pc # "returned" => c.logged = 0
              /\ c.pc = "raised" => RaisedByObserverOrNoPolicy(c)

\* C3's case: two calls have returned, one blocked and one allowed with
\* constraints, and the log holds their two entries.
C3_Witness ==
    /\ stats.began = 2 /\ stats.returned = 2
    /\ Len(entries) = 2
    /\ entries[1].evaluation.decision = "BLOCK"
    /\ entries[2].evaluation.decision = "ALLOW_CONSTRAINED"

\* C4. A blocked request never reaches the downstream model: once a call's
\* evaluation is BLOCK it makes no downstream call, its llm_response stays
\* None, it emits no "response" event, and when it returns it has emitted
\* "blocked" once; the entry it logs has no llm_response either.
C4_BlockedNeverForwarded ==
    /\ \A t \in Threads :
          LET c == call[t]
          IN  (IsSome(c.evaluation) /\ Get(c.evaluation).decision = "BLOCK")
              => /\ c.llm = <<>>
                 /\ c.pc # "llm_wait"
                 /\ Get(c.evaluation).llm_response = None
                 /\ CountEvents(c, "response") = 0
                 /\ c.pc = "returned" => CountEvents(c, "blocked") = 1
    /\ \A i \in DOMAIN entries :
          entries[i].evaluation.decision = "BLOCK" => entries[i].evaluation.llm_response = None

\* C4's case: a call classified by the service was blocked by a rule of the
\* policy and has returned.
C4_Witness ==
    \E t \in Threads :
        /\ call[t].pc = "returned"
        /\ call[t].svc # <<>>
        /\ Get(call[t].evaluation).decision = "BLOCK"
        /\ Get(call[t].evaluation).matched_rule_id = "block-surveillance"
        /\ CountEvents(call[t], "blocked") = 1

\* C5. An allowed request is forwarded exactly once: a call whose
\* evaluation is ALLOW or ALLOW_CONSTRAINED calls the downstream model once,
\* with the raw prompt, keeps the returned text in llm_response, and by its
\* return has emitted "response" once and "blocked" never.
C5_AllowedForwardedOnce ==
    \A t \in Threads :
        LET c == call[t]
        IN  (IsSome(c.evaluation) /\ Get(c.evaluation).decision \in {"ALLOW", "ALLOW_CONSTRAINED"})
            => /\ Len(c.llm) <= 1
               /\ CountEvents(c, "blocked") = 0
               /\ c.pc \in {"llm_wait", "returned"}
                  => /\ Len(c.llm) = 1
                     /\ c.llm[1].prompt = c.prompt
               /\ c.pc = "returned"
                  => /\ IsSome(c.llm[1].resp)
                     /\ CountEvents(c, "response") = 1
                     /\ Get(c.llm[1].resp).kind = "text"
                        => Get(c.evaluation).llm_response = Some(Get(c.llm[1].resp).text)

\* C5's case: a call with a prompt that is not in normal form was allowed
\* with constraints, the model answered, and the call has returned.
C5_Witness ==
    \E t \in Threads :
        /\ call[t].pc = "returned"
        /\ call[t].prompt = <<"A", " ">>
        /\ Get(call[t].evaluation).decision = "ALLOW_CONSTRAINED"
        /\ Get(call[t].llm[1].resp).kind = "text"
        /\ Get(call[t].evaluation).llm_response = Some("reply")

\* The evaluation as the "evaluated" event carried it, before any
\* downstream call.
AsEvaluated(c) ==
    {c.events[i].data : i \in {j \in DOMAIN c.events : c.events[j].name = "evaluated"}}

\* C6. Downstream-model failure is absorbed: when the downstream call of an
\* allowed request fails, the call is not ended by that failure (it returns
\* unless an observer raises), llm_response is "[LLM call failed]", the
\* evaluation is otherwise as the policy engine returned it, "response" is
\* emitted, and on return one alert per target was emitted and the entry
\* was appended.
C6_ModelFailureAbsorbed ==
    \A t \in Threads :
        LET c == call[t]
        IN  (c.llm # <<>> /\ IsSome(c.llm[1].resp) /\ Get(c.llm[1].resp).kind # "text")
            => /\ c.pc \in {"returned", "raised"}
               /\ c.pc = "raised" => Get(c.error).kind = "CallbackError"
               /\ ~SomeCallbackRaises => c.pc = "returned"
               /\ Get(c.evaluation).llm_response = Some("[LLM call failed]")
               /\ AsEvaluated(c) = {[Get(c.evaluation) EXCEPT !.llm_response = None]}
               /\ Get(c.evaluation).decision \in {"ALLOW", "ALLOW_CONSTRAINED"}
               /\ CountEvents(c, "response") = 1
               /\ c.pc = "returned"
                  => /\ AlertTargets(c) = Get(c.evaluation).alerts
                     /\ c.logged = 1
                     /\ \E i \in DOMAIN entries : entries[i].evaluation = Get(c.evaluation)

\* C6's case: the downstream call of a request allowed with constraints
\* raised; the call has returned with the sentinel, its alert and its entry.
C6_Witness ==
    \E t \in Threads :
        /\ call[t].pc = "returned"
        /\ Get(call[t].evaluation).decision = "ALLOW_CONSTRAINED"
        /\ Get(call[t].llm[1].resp).kind = "raise"
        /\ AlertTargets(call[t]) = <<"oversight">>
        /\ Get(call[t].evaluation).llm_response = Some("[LLM call failed]")
        /\ call[t].logged = 1

\* An answer of the classification service that is no classification: the
\* call raised, the text is not JSON, a key is missing, the confidence is
\* no number, or the category is not a configured one.
BadAnswer(resp) ==
    \/ resp.kind = "raise"
    \/ resp.json = None
    \/ /\ resp.json # None
       /\ \/ {"category", "confidence"} \ DOMAIN Get(resp.json) # {}
          \/ /\ {"category", "confidence"} \subseteq DOMAIN Get(resp.json)
             /\ \/ ~Get(resp.json).confidence.num
                \/ \A i \in DOMAIN classifier.categories :
                      classifier.categories[i] # Get(resp.json).category

\* The service has answered the call's classification request with resp.
Answered(c) == c.svc # <<>> /\ IsSome(c.svc[1].resp)

\* C7. Classifier resilience: on a cache miss, when the service raises,
\* answers what cannot be parsed, or names a category outside the
\* configured set, classify returns category "unclassified", confidence 0.0
\* and the original prompt, and does not raise.
C7_ClassifierResilience ==
    \A t \in Threads :
        LET c == call[t]
        IN  (Answered(c) /\ BadAnswer(Get(c.svc[1].resp)))
            => /\ IsSome(c.classification)
               /\ Get(c.classification).intent_category = "unclassified"
               /\ Get(c.classification).confidence = 0
               /\ Get(c.classification).raw_prompt = c.prompt
               /\ c.pc = "raised" => RaisedByObserverOrNoPolicy(c)

\* C7's case: the service named a category outside the configured set for a
\* prompt that is not in normal form, and classify returned the fallback.
C7_Witness ==
    \E t \in Threads :
        /\ Answered(call[t])
        /\ Get(call[t].svc[1].resp) = SvcJson([category |-> "poetry", confidence |-> JNum(88)])
        /\ call[t].prompt = <<"A", " ">>
        /\ Get(call[t].classification).intent_category = "unclassified"
        /\ Get(call[t].classification).raw_prompt = <<"A", " ">>

\* C8. Fail-closed through the whole pipeline: when classification fails
\* under a loaded policy in which no rule lists "unclassified", the call is
\* blocked by "unknown-intent", makes no downstream call, and returns
\* (unless an observer raises) having emitted the one alert "trust_safety"
\* and appended one entry.
C8_FailClosedPipeline ==
    \A t \in Threads :
        LET c == call[t]
        IN  (/\ Answered(c) /\ BadAnswer(Get(c.svc[1].resp))
             /\ IsSome(policy)
             /\ \A i \in DOMAIN LoadedRules : ~Lists(LoadedRules[i], "unclassified"))
            => /\ c.pc \in {"returned", "raised"}
               /\ c.pc = "raised" => Get(c.error).kind = "CallbackError"
               /\ ~SomeCallbackRaises => c.pc = "returned"
               /\ c.llm = <<>>
               /\ IsSome(c.evaluation)
                  => /\ Get(c.evaluation).decision = "BLOCK"
                     /\ Get(c.evaluation).matched_rule_id = "unknown-intent"
                     /\ Get(c.evaluation).llm_response = None
               /\ c.pc = "returned"
                  => /\ IsSome(c.evaluation)
                     /\ AlertTargets(c) = <<"trust_safety">>
                     /\ c.logged = 1
                     /\ Cardinality(EntriesOf(Get(c.evaluation).oid)) = 1

\* C8's case: the service's call raised under a loaded three-rule policy;
\* the call returned blocked, with one alert and one entry.
C8_Witness ==
    \E t \in Threads :
        /\ call[t].pc = "returned"
        /\ Answered(call[t]) /\ Get(call[t].svc[1].resp).kind = "raise"
        /\ IsSome(policy) /\ Len(LoadedRules) = 3
        /\ Get(call[t].evaluation).matched_rule_id = "unknown-intent"
        /\ AlertTargets(call[t]) = <<"trust_safety">>
        /\ Len(entries) = 1

\* ---------------------------------------------------- claims on the cache

\* s[i..j] is s without its leading and trailing whitespace (empty when
\* i = j + 1).
IsCore(s, i, j) ==
    /\ i <= j + 1
    /\ \A n \in 1..(i - 1) : s[n] = " "
    /\ \A n \in (j + 1)..Len(s) : s[n] = " "
    /\ i <= j => (s[i] # " " /\ s[j] # " ")

\* Two characters that are equal or differ only in case.
SameUpToCase(x, y) == x = y \/ {x, y} = {"a", "A"}

\* s without its leading and trailing whitespace.
Core(s) ==
    LET b == CHOOSE b \in (1..(Len(s) + 1)) \X (0..Len(s)) : IsCore(s, b[1], b[2])
    IN  SubSeq(s, b[1], b[2])

\* Two prompts that differ only in letter case and in leading or trailing
\* whitespace.
Equivalent(p, q) ==
    /\ Len(Core(p)) = Len(Core(q))
    /\ \A n \in DOMAIN Core(p) : SameUpToCase(Core(p)[n], Core(q)[n])

\* The keys the cache was constructed with.
FileKeys == IF IsNone(cacheFile) THEN {} ELSE {Get(cacheFile)[i].key : i \in DOMAIN Get(cacheFile)}

\* The set calls whose prompt is equivalent to q.
SetsFor(q) == {i \in DOMAIN sets : Equivalent(sets[i].prompt, q)}

\* C9. Cache-key normalization: get(q) returns the result of the latest
\* set(p, X) with p equivalent to q up to letter case and surrounding
\* whitespace, and misses when q is equivalent to no stored prompt.
C9_CacheKeyNormalization ==
    IsSome(getOut)
    => LET q == Get(getOut).prompt
           out == Get(getOut).out
       IN  /\ SetsFor(q) # {}
              => \E i \in SetsFor(q) :
                    /\ \A j \in SetsFor(q) : j <= i
                    /\ out = Some(sets[i].result)
           /\ (SetsFor(q) = {} /\ \A k \in FileKeys : ~Equivalent(k, q)) => out = None

\* C9's case: a get for a prompt with an upper-case letter between
\* whitespace returned what was set under the lower-case letter alone, a
\* set for another key lying in between.
C9_Witness ==
    /\ IsSome(getOut)
    /\ Len(sets) = 2
    /\ sets[1].prompt = <<"a">>
    /\ sets[2].prompt = <<"a", " ", "a">>
    /\ Get(getOut).prompt = <<" ", "A", " ">>
    /\ Get(getOut).out = Some(sets[1].result)

\* classify was reached: the call did not end at "prompt_received".
ClassifyReached(c) == c.pc # "idle" /\ ~(c.pc = "raised" /\ Len(c.events) = 1)

\* The entries the cache holds under keys that are the prompt's normal
\* form: equivalent to it, lower-case, without surrounding whitespace.
EntriesFor(c, prompt) ==
    {c[k] : k \in {x \in DOMAIN c : /\ Equivalent(x, prompt)
                                      /\ IsCore(x, 1, Len(x))
                                      /\ \A n \in DOMAIN x : x[n] # "A"}}

\* C10. A cache hit short-circuits classification: when a call begins with
\* a cache attached that holds an entry for the normalized prompt, classify
\* returns that stored object and the service is not called.
C10_CacheHitShortCircuits ==
    [][\A t \in Threads :
          (/\ call[t].pc = "idle"
           /\ ClassifyReached(call'[t])
           /\ classifier.has_cache
           /\ EntriesFor(cache, call'[t].prompt) # {})
          => /\ call'[t].svc = <<>>
             /\ call'[t].pc # "svc_wait"
             /\ IsSome(call'[t].classification)
             /\ Get(call'[t].classification) \in EntriesFor(cache, call'[t].prompt)
             /\ cache' = cache]_vars

\* C10's case: a call whose prompt is not in normal form was served the
\* object an earlier call stored under another prompt, without a service
\* call.
C10_Witness ==
    \E t \in Threads :
        /\ call[t].hit
        /\ call[t].svc = <<>>
        /\ call[t].prompt = <<"A", " ">>
        /\ Get(call[t].classification).raw_prompt = <<"a">>
        /\ Get(call[t].classification).oid >= 1
        /\ cache[<<"a">>] = Get(call[t].classification)

\* ------------------------------------- claims on caching and the audit log

\* An answer of the classification service that is a classification: JSON
\* with a category of the configured set and a numeric confidence.
GoodAnswer(resp) ==
    /\ resp.kind = "text"
    /\ IsSome(resp.json)
    /\ {"category", "confidence"} \subseteq DOMAIN Get(resp.json)
    /\ Get(resp.json).confidence.num
    /\ \E i \in DOMAIN classifier.categories :
          classifier.categories[i] = Get(resp.json).category

\* The answer the service gave to the call's request.
AnswerOf(c) == Get(c.svc[Len(c.svc)].resp)

\* C11. A successful classification is cached: when classify misses the
\* cache and the service gives a parseable answer with a configured
\* category, the result is in the cache, for every prompt equivalent to the
\* classified one, by the time classify has returned; and a later call
\* with a prompt equivalent to one classify stored a result for is given
\* that stored result without a service call.
C11_SuccessIsCached ==
    [][\A t \in Threads :
          /\ (/\ call[t].pc = "svc_wait"
              /\ call'[t].pc # "svc_wait"
              /\ classifier.has_cache
              /\ GoodAnswer(AnswerOf(call'[t])))
             => /\ IsSome(call'[t].classification)
                /\ Get(call'[t].classification).intent_category
                      = Get(AnswerOf(call'[t]).json).category
                /\ Get(call'[t].classification).confidence
                      = Get(AnswerOf(call'[t]).json).confidence.n
                /\ Get(call'[t].classification).raw_prompt = call[t].prompt
                /\ \A q \in Prompts :
                      Equivalent(q, call[t].prompt)
                      => CacheGet(cache', q) = call'[t].classification
          /\ (/\ call[t].pc = "idle"
              /\ ClassifyReached(call'[t])
              /\ classifier.has_cache)
             => \A i \in DOMAIN sets :
                   Equivalent(sets[i].prompt, call'[t].prompt)
                   => /\ call'[t].classification = Some(sets[i].result)
                      /\ call'[t].svc = <<>>
                      /\ call'[t].pc # "svc_wait"]_vars

\* C11's case: a call missed the cache, the service classified its prompt,
\* and a later call with another spelling of the prompt returned with the
\* stored result, the service not having been called again.
C11_Witness ==
    \E t \in Threads :
        /\ call[t].pc = "returned"
        /\ Len(sets) = 1
        /\ sets[1].prompt = <<"A", " ">>
        /\ call[t].prompt = <<"a">>
        /\ call[t].svc = <<>>
        /\ call[t].classification = Some(sets[1].result)
        /\ sets[1].result.intent_category = "bulk_surveillance"

\* C12. Bootstrapped entries are retrievable: on a cache just constructed
\* from a file, get(k) for a key k of the file returns a classification
\* with the entry's category and confidence and with raw_prompt k.
C12_BootstrappedRetrievable ==
    (IsSome(cacheFile) /\ sets = <<>> /\ IsSome(getOut))
    => \A i \in DOMAIN Get(cacheFile) :
          Get(getOut).prompt = Get(cacheFile)[i].key
          => /\ IsSome(Get(getOut).out)
             /\ Get(Get(getOut).out).intent_category = Get(cacheFile)[i].category
             /\ Get(Get(getOut).out).confidence = Get(cacheFile)[i].confidence
             /\ Get(Get(getOut).out).raw_prompt = Get(cacheFile)[i].key

\* The "alert" events a call emitted, in order.
AlertEvents(c) == SelectSeq(c.events, LAMBDA e : e.name = "alert")

EventNamesOf(c) == [i \in DOMAIN c.events |-> c.events[i].name]

\* s is an initial part of u.
IsPrefix(s, u) == Len(s) <= Len(u) /\ \A i \in DOMAIN s : s[i] = u[i]

\* The events of a whole call with this evaluation: the four stage events,
\* then one "alert" for each target.
StageEvents(evaluation) ==
    <<"prompt_received", "classified", "evaluated",
      IF evaluation.decision = "BLOCK" THEN "blocked" ELSE "response">>
    \o [i \in DOMAIN evaluation.alerts |-> "alert"]

\* C14. Stage ordering: a call's steps occur in the order "prompt_received",
\* classification, "classified", policy evaluation, "evaluated", the
\* downstream call and "response" or else "blocked", the "alert" events,
\* the audit append, return. Each step is seen to follow the one before:
\* the events emitted so far are an initial part of that sequence, the
\* service is awaited after "prompt_received" alone, the evaluation exists
\* only after "classified", the model is awaited after "evaluated" and
\* before "response", and the entry is appended only once the last alert
\* has been emitted, so a call an observer ended has appended nothing.
C14_StageOrdering ==
    \A t \in Threads :
        LET c == call[t]
            names == EventNamesOf(c)
        IN  c.pc # "idle"
            => /\ IF IsSome(c.evaluation)
                  THEN IsPrefix(names, StageEvents(Get(c.evaluation))) /\ Len(names) >= 2
                  ELSE IsPrefix(names, <<"prompt_received", "classified">>) /\ Len(names) >= 1
               /\ c.pc = "svc_wait"
                  => names = <<"prompt_received">> /\ IsNone(c.classification)
               /\ Len(names) >= 2
                  => /\ IsSome(c.classification)
                     /\ c.events[2].data = Get(c.classification)
                     /\ c.svc # <<>> => IsSome(c.svc[1].resp)
               /\ Len(names) >= 3
                  => /\ c.events[3].data.oid = Get(c.evaluation).oid
                     /\ Get(c.classification).oid < Get(c.evaluation).oid
               /\ c.pc = "llm_wait"
                  => /\ names = <<"prompt_received", "classified", "evaluated">>
                     /\ IsNone(c.llm[1].resp)
                     /\ c.logged = 0
               /\ (Len(names) >= 4 /\ names[4] = "response")
                  => Len(c.llm) = 1 /\ IsSome(c.llm[1].resp)
               /\ c.logged > 0
                  => /\ names = StageEvents(Get(c.evaluation))
                     /\ c.pc = "returned"
                     /\ entries[Len(entries)].evaluation = Get(c.evaluation)
                     /\ entries[Len(entries)].id > Get(c.evaluation).oid
               /\ c.pc = "returned"
                  => c.logged = 1 /\ names = StageEvents(Get(c.evaluation))

\* C14's case: a blocked call went through every stage, two alerts
\* included, and returned with its entry appended last.
C14_Witness ==
    \E t \in Threads :
        /\ call[t].pc = "returned"
        /\ EventNamesOf(call[t])
             = <<"prompt_received", "classified", "evaluated", "blocked", "alert", "alert">>
        /\ call[t].logged = 1
        /\ call[t].svc # <<>>
        /\ entries[Len(entries)].evaluation = Get(call[t].evaluation)

\* The positions of the entries whose evaluation names an alert target.
WithAlerts(es) == {i \in DOMAIN es : es[i].evaluation.alerts # <<>>}

\* The step is a call of get_entries or get_alerts.
GetStep(op) == auditOps'.gets # auditOps.gets /\ Get(view').op = op

\* C15. get_alerts returns exactly the entries whose evaluation has a
\* non-empty alert list, in insertion order: the returned list maps onto
\* the positions of those entries, one to one and in increasing order.
C15_GetAlertsExact ==
    [][GetStep("get_alerts")
       => LET items == Get(view').list.items
          IN  \E f \in [DOMAIN items -> DOMAIN entries] :
                 /\ \A k \in DOMAIN items : items[k] = entries[f[k]]
                 /\ \A k, l \in DOMAIN items : k < l => f[k] < f[l]
                 /\ {f[k] : k \in DOMAIN items} = WithAlerts(entries)]_vars

\* C15's case: of three entries the first and the last have alerts (one
\* of them an allowed request's), and get_alerts returned those two in
\* order.
C15_Witness ==
    /\ IsSome(view)
    /\ Get(view).op = "get_alerts"
    /\ Len(entries) = 3
    /\ WithAlerts(entries) = {1, 3}
    /\ entries[1].evaluation.decision = "ALLOW_CONSTRAINED"
    /\ Get(view).list.items = <<entries[1], entries[3]>>

\* C16. The audit log is append-only: whatever the operation (log,
\* get_entries, get_alerts, evaluate_request, a caller changing a list it
\* was handed), the entries before the step are an initial part of the
\* entries after it.
C16_AppendOnly == [][IsPrefix(entries, entries')]_vars

\* C16's case: the log holds three entries, written by direct log calls
\* and an evaluate_request call, and was read twice, one returned list
\* having been changed by its caller.
C16_Witness ==
    /\ Len(entries) = 3
    /\ auditOps = [logs |-> 2, gets |-> 2, mutations |-> 1]
    /\ stats.returned = 1
    /\ IsSome(view) /\ Get(view).mutated

\* C17. get_entries returns a defensive copy: a caller appending to,
\* removing from or reversing the returned list leaves the log's entries
\* as they were, and get_entries returns every logged entry in insertion
\* order, also after such a change.
C17_DefensiveCopy ==
    [][/\ auditOps'.mutations # auditOps.mutations => entries' = entries
       /\ GetStep("get_entries")
          => LET items == Get(view').list.items
             IN  /\ Len(items) = auditOps.logs + stats.returned
                 /\ \A k, l \in DOMAIN items : k < l => items[k].id < items[l].id
                 /\ items = entries]_vars

\* C17's case: a list get_entries returned was changed by its caller, and
\* a later get_entries returned the three logged entries.
C17_Witness ==
    /\ IsSome(view)
    /\ Get(view).op = "get_entries"
    /\ ~Get(view).mutated
    /\ auditOps.mutations = 1
    /\ auditOps.gets = 2
    /\ Len(Get(view).list.items) = 3

\* The ids of the entries.
EntryIds(es) == {es[i].id : i \in DOMAIN es}

\* C18. log always succeeds and appends exactly one entry, holding the
\* given prompt, classification and evaluation, and returns it; the ids of
\* the entries of the log are pairwise distinct.
C18_LogAppendsOne ==
    [][/\ auditOps'.logs # auditOps.logs
          => /\ IsSome(logOut')
             /\ entries' = Append(entries, Get(logOut').entry)
             /\ Get(logOut').entry.prompt_text = Get(logOut').prompt
             /\ Get(logOut').entry.classification = Get(logOut').classification
             /\ Get(logOut').entry.evaluation = Get(logOut').evaluation
             /\ Get(logOut').entry.id \notin EntryIds(entries)
       /\ Cardinality(EntryIds(entries')) = Len(entries')]_vars

\* C18's case: the same evaluation was logged twice, after an
\* evaluate_request call had logged its own: three entries, three ids.
C18_Witness ==
    /\ Len(entries) = 3
    /\ auditOps.logs = 2
    /\ entries[2].evaluation = entries[3].evaluation
    /\ Cardinality(EntryIds(entries)) = 3

\* ------------------------------------------- claims on the engine's errors

\* The keys of a parsed mapping (none when it is no mapping).
KeysOf(x) == IF x.t = "map" THEN DOMAIN x.m ELSE {}

\* The parsed rules of a source (none when there is no list of rules).
RawRulesOf(data) ==
    IF "rules" \in KeysOf(data) /\ data.m.rules.t = "list" THEN data.m.rules.l ELSE <<>>

\* A source with one of the structural defects: no policy section, no
\* policy.name, no policy.version, no rules section, an empty rules list,
\* or a rule without id, decision or match_categories.
LacksRequired(data) ==
    \/ "policy" \notin KeysOf(data)
    \/ "policy" \in KeysOf(data) /\ {"name", "version"} \ KeysOf(data.m.policy) # {}
    \/ "rules" \notin KeysOf(data)
    \/ "rules" \in KeysOf(data) /\ data.m.rules.t = "list" /\ data.m.rules.l = <<>>
    \/ \E i \in DOMAIN RawRulesOf(data) :
          {"id", "decision", "match_categories"} \ KeysOf(RawRulesOf(data)[i]) # {}

\* C19. load fails with ValueError, returning no policy, whenever the
\* source lacks the policy section, policy.name, policy.version, the rules
\* section, has an empty rules list, or has a rule lacking id, decision or
\* match_categories.
C19_LoadStructuralErrors ==
    (IsSome(loadOut) /\ LacksRequired(Get(loadOut).data))
    => /\ DidRaise(Get(loadOut).out)
       /\ Get(Get(loadOut).out.error).kind = "ValueError"
       /\ IsNone(Get(loadOut).out.value)

\* C19's case: after a successful load, a source whose second rule has no
\* decision was refused with ValueError.
C19_Witness ==
    /\ IsSome(loadOut)
    /\ IsSome(policy)
    /\ Len(RawRulesOf(Get(loadOut).data)) = 2
    /\ "decision" \in KeysOf(RawRulesOf(Get(loadOut).data)[1])
    /\ "decision" \notin KeysOf(RawRulesOf(Get(loadOut).data)[2])
    /\ DidRaise(Get(loadOut).out)
    /\ Get(Get(loadOut).out.error).kind = "ValueError"

\* The step is a load, or an evaluate called directly.
LoadStep == loads' # loads
EvaluateStep == IsNone(evalOut) /\ IsSome(evalOut')

\* C20. evaluate fails with RuntimeError if and only if no policy has been
\* successfully loaded on the engine. The engine has a policy exactly from
\* its first successful load on (a load that returns sets it, a load that
\* fails and an evaluate leave it as it was); evaluate raises RuntimeError
\* when there is none, leaving the engine without one, and returns a
\* result for every category when there is one.
C20_EvaluateNeedsPolicy ==
    [][/\ LoadStep
          => IF DidReturn(Get(loadOut').out)
             THEN policy' = Get(loadOut').out.value /\ IsSome(policy')
             ELSE policy' = policy
       /\ EvaluateStep
          => /\ policy' = policy
             /\ DidRaise(Get(evalOut').out) <=> IsNone(policy)
             /\ DidRaise(Get(evalOut').out)
                => Get(Get(evalOut').out.error).kind = "RuntimeError"
             /\ DidReturn(Get(evalOut').out) <=> IsSome(policy)
       /\ IsSome(policy) => IsSome(policy')]_vars

\* C20's case: a load succeeded, a later load failed, and evaluate then
\* returned a result for a category no source mentions.
C20_Witness ==
    /\ loads = 2
    /\ IsSome(loadOut) /\ DidRaise(Get(loadOut).out)
    /\ IsSome(policy)
    /\ IsSome(evalOut)
    /\ Get(evalOut).intent_category = "poetry"
    /\ DidReturn(Get(evalOut).out)

\* C21. After every successful load, the ids of the loaded policy's rules
\* are pairwise distinct.
C21_RuleIdsDistinct ==
    IsSome(policy)
    => \A i, j \in DOMAIN LoadedRules : i # j => LoadedRules[i].id # LoadedRules[j].id

\* C22. After every successful load, every rule of the loaded policy has a
\* non-empty match_categories list.
C22_MatchCategoriesNonEmpty ==
    IsSome(policy)
    => \A i \in DOMAIN LoadedRules : LoadedRules[i].match_categories # <<>>

\* A source with a rule, having the required keys, whose decision or audit
\* level is none of the enumerated values.
HasOpenValue(data) ==
    \E i \in DOMAIN RawRulesOf(data) :
        LET r == RawRulesOf(data)[i]
        IN  /\ {"id", "decision", "match_categories"} \subseteq KeysOf(r)
            /\ \/ r.m.decision \notin {"ALLOW", "ALLOW_CONSTRAINED", "BLOCK"}
               \/ "audit" \in KeysOf(r) /\ r.m.audit \notin {"standard", "enhanced", "critical"}

\* C23. Decision and audit-level values are closed at load time: a source
\* with a rule whose decision or audit level is none of the three values
\* is refused with ValueError and the engine's policy stays as it was;
\* every rule of a loaded policy, and every result evaluate returns, has a
\* decision and an audit level among the three.
C23_ClosedEnums ==
    [][/\ (LoadStep /\ HasOpenValue(Get(loadOut').data))
          => /\ DidRaise(Get(loadOut').out)
             /\ Get(Get(loadOut').out.error).kind = "ValueError"
             /\ policy' = policy
       /\ IsSome(policy')
          => \A i \in DOMAIN Get(policy').rules :
                /\ Get(policy').rules[i].decision \in {"ALLOW", "ALLOW_CONSTRAINED", "BLOCK"}
                /\ Get(policy').rules[i].audit \in {"standard", "enhanced", "critical"}
       /\ (EvaluateStep /\ DidReturn(Get(evalOut').out))
          => /\ Get(Get(evalOut').out.value).decision \in {"ALLOW", "ALLOW_CONSTRAINED", "BLOCK"}
             /\ Get(Get(evalOut').out.value).audit_level \in {"standard", "enhanced", "critical"}]_vars

\* C23's case: with a policy loaded, a source with decision "MAYBE" was
\* refused, and an evaluation on the policy that stayed returned a result.
C23_Witness ==
    /\ loads = 2
    /\ IsSome(loadOut)
    /\ HasOpenValue(Get(loadOut).data)
    /\ RawRulesOf(Get(loadOut).data)[1].m.decision = "MAYBE"
    /\ DidRaise(Get(loadOut).out)
    /\ IsSome(policy)
    /\ IsSome(evalOut) /\ DidReturn(Get(evalOut).out)

\* The response the proxy gave came from an evaluation.
Evaluated == IsSome(http.evaluation) /\ IsSome(http.response)

\* s occurs in the sequence u.
Names(u, s) == \E i \in DOMAIN u : u[i] = s

\* C24: the proxy answers 400 with error type policy_violation, naming the
\* matched rule's id, exactly when the evaluation's decision is BLOCK; for
\* ALLOW and ALLOW_CONSTRAINED it answers 200 with a chat completion whose
\* content is the evaluation's llm_response; a blocked request's response
\* carries no model content.
C24_OutcomeMapping ==
    /\ IsSome(http.response) /\ Get(http.response).type = "policy_violation"
          => IsSome(http.evaluation)
    /\ Evaluated =>
          LET e == Get(http.evaluation)
              r == Get(http.response)
          IN  /\ r.type = "policy_violation" <=> e.decision = "BLOCK"
              /\ e.decision = "BLOCK"
                    => r.status = 400 /\ Names(r.message, e.matched_rule_id) /\ r.content = None
              /\ e.decision \in {"ALLOW", "ALLOW_CONSTRAINED"}
                    => /\ r.status = 200
                       /\ r.type = "chat.completion"
                       /\ IsSome(e.llm_response)
                       /\ r.content = e.llm_response

\* A request blocked by a rule of the policy has been answered.
C24_Witness ==
    /\ Evaluated
    /\ Get(http.evaluation).decision = "BLOCK"
    /\ Get(http.evaluation).matched_rule_id # "unknown-intent"
    /\ Get(http.response).status = 400

\* The messages list of a request body, empty when the body has none.
MessagesOf(body) ==
    IF IsDict(body) /\ HasKey(body, "messages") /\ IsList(Item(body, "messages"))
    THEN Item(body, "messages").l ELSE <<>>

\* The places of the user messages in a messages list.
UserMessages(ms) == {i \in DOMAIN ms : IsDict(ms[i]) /\ GetOr(ms[i], "role", "") = "user"}

\* The request is one of the invalid kinds: its body cannot be parsed, it has
\* no messages list or an empty one, or the list has no user message.
InvalidRequest(body) ==
    \/ body.t = "invalid"
    \/ MessagesOf(body) = <<>>
    \/ UserMessages(MessagesOf(body)) = {}

\* C25: a request with an unparseable body, a missing or empty messages list
\* or no user message is answered 400 without a call of evaluate_request;
\* every other request calls evaluate_request exactly once.
C25_InvalidNeverEvaluated ==
    IsSome(http.body) =>
        IF InvalidRequest(Get(http.body))
        THEN IsSome(http.response) /\ Get(http.response).status = 400 /\ http.calls = 0
        ELSE http.calls = 1

\* The content of the last user message of a messages list.
LastUserMessage(ms) ==
    LET last == CHOOSE i \in UserMessages(ms) : \A k \in UserMessages(ms) : k <= i
    IN  GetOr(ms[last], "content", <<>>)

\* C26: when the proxy calls evaluate_request, the prompt it passes is the
\* content of the last message with role "user" in list order, whatever
\* messages of other roles come before or after it.
C26_LastUserMessage ==
    http.calls = 1 =>
        /\ UserMessages(MessagesOf(Get(http.body))) # {}
        /\ http.prompt = Some(LastUserMessage(MessagesOf(Get(http.body))))
        /\ call[1].pc # "idle" => call[1].prompt = LastUserMessage(MessagesOf(Get(http.body)))

\* The request with two user messages and an assistant message between them
\* has been evaluated with the later one.
C26_Witness ==
    /\ http.calls = 1
    /\ Cardinality(UserMessages(MessagesOf(Get(http.body)))) = 2
    /\ Len(MessagesOf(Get(http.body))) = 3
    /\ http.prompt = Some(<<"A", " ">>)
    /\ IsSome(http.evaluation)

\* The callbacks of one event that an emission calls: all of them in the
\* order of the event's list, up to and including the first that raises.
RECURSIVE CalledFor(_, _)
CalledFor(event, i) ==
    IF i > Len(callbacks[event]) THEN <<>>
    ELSE <<[event |-> event, callback |-> callbacks[event][i].id]>>
         \o (IF callbacks[event][i].behaviour = "raise" THEN <<>> ELSE CalledFor(event, i + 1))

\* An emission of this event ends with a callback raising.
Throws(event) == \E i \in DOMAIN callbacks[event] : callbacks[event][i].behaviour = "raise"

\* The invocations that a sequence of emitted events makes, from event i on.
RECURSIVE Dispatch(_, _)
Dispatch(names, i) ==
    IF i > Len(names) THEN <<>>
    ELSE CalledFor(names[i], 1) \o (IF Throws(names[i]) THEN <<>> ELSE Dispatch(names, i + 1))

\* C27: each event's callbacks are kept in registration order, and at every
\* point of a call (at its outbound calls and at its end) the callbacks
\* invoked so far are exactly those of the events emitted so far: for each
\* emission, every callback registered for that event, once for each
\* registration, in registration order, before anything of the next event; a
\* callback registered for another event is not invoked.
C27_DispatchOrder ==
    /\ \A e \in EventNames : \A i, j \in DOMAIN callbacks[e] :
          i < j => callbacks[e][i].id < callbacks[e][j].id
    /\ \A t \in Threads :
          call[t].pc # "idle" => call[t].invoked = Dispatch(EventNamesOf(call[t]), 1)

\* A call has returned after invoking two callbacks of one event, the
\* earlier registered first, for each emission of that event.
C27_Witness ==
    \E t \in Threads, e \in PipelineEvents :
        /\ call[t].pc = "returned"
        /\ Len(callbacks[e]) = 2
        /\ Len(call[t].invoked) >= 2
        /\ call[t].invoked[1] = [event |-> e, callback |-> 1]
        /\ call[t].invoked[2] = [event |-> e, callback |-> 2]

\* The last element of a non-empty sequence.
Last(s) == s[Len(s)]

\* The registered callback with this id raises.
RaisingCallback(id) ==
    \E e \in EventNames : \E i \in DOMAIN callbacks[e] :
        callbacks[e][i].id = id /\ callbacks[e][i].behaviour = "raise"

\* Thread t's call ends in this step with an observer's exception.
ObserverAborts(t) ==
    /\ call[t].pc # "raised"
    /\ call'[t].pc = "raised"
    /\ Get(call'[t].error).kind = "CallbackError"

\* C28: a call invokes a raising callback only as its last act: the call ends
\* with the callback's exception, the raising callback is the last one
\* invoked and its event the last one emitted, no stage after that event has
\* run (no service call after prompt_received, no evaluation after
\* classified, no model call and no blocked event after evaluated), the call
\* has appended no audit entry and the audit log is as it was.
C28_ObserverAborts ==
    [][\A t \in Threads :
          /\ (\E i \in DOMAIN call'[t].invoked : RaisingCallback(call'[t].invoked[i].callback))
                => call'[t].pc = "raised" \/ call'[t].pc = "idle"
          /\ ObserverAborts(t) =>
                LET c == call'[t]
                IN  /\ RaisingCallback(Last(c.invoked).callback)
                    /\ \A i \in 1..(Len(c.invoked) - 1) : ~RaisingCallback(c.invoked[i].callback)
                    /\ Last(c.invoked).event = Last(c.events).name
                    /\ Last(c.events).name = "prompt_received"
                          => c.svc = <<>> /\ c.classification = None
                    /\ Last(c.events).name = "classified" => c.evaluation = None
                    /\ Last(c.events).name = "evaluated"
                          => c.llm = <<>> /\ \A i \in DOMAIN c.events : c.events[i].name # "blocked"
                    /\ c.logged = 0
                    /\ entries' = entries]_vars

\* After one call was logged, a later call has been ended by a callback
\* raising on its "response" event, and the log still holds the one entry.
C28_Witness ==
    \E t \in Threads :
        /\ call[t].pc = "raised"
        /\ Get(call[t].error).kind = "CallbackError"
        /\ Last(call[t].events).name = "response"
        /\ call[t].logged = 0
        /\ Len(entries) = 1

\* C29: with classify called from several threads on one classifier with a
\* cache, once a normalized key maps to a classification the value stored
\* under the key never changes.
C29_InsertIfAbsent ==
    [][\A k \in DOMAIN cache : k \in DOMAIN cache' /\ cache'[k] = cache[k]]_vars

\* The entries of the log that hold the evaluation of thread t's call.
EntriesOfCall(t) ==
    {i \in DOMAIN entries : entries[i].evaluation.oid = Get(call[t].evaluation).oid}

\* C30: with evaluate_request called from several threads, interleaved at the
\* outbound calls, the log holds one entry for each call that has returned,
\* no two with one id, and the entry of a returned call holds that call's
\* prompt, that call's classification and that call's evaluation, which is
\* the evaluation of that classification.
C30_AuditedIndividually ==
    /\ Len(entries) = stats.returned
    /\ \A i, j \in DOMAIN entries : entries[i].id = entries[j].id => i = j
    /\ \A t \in AllThreads :
          call[t].pc = "returned" =>
              /\ Cardinality(EntriesOfCall(t)) = 1
              /\ \A i \in EntriesOfCall(t) :
                    /\ entries[i].prompt_text = call[t].prompt
                    /\ entries[i].classification = Get(call[t].classification)
                    /\ entries[i].evaluation = Get(call[t].evaluation)
                    /\ entries[i].evaluation.classification = entries[i].classification

\* Two calls with different prompts of one cache key have overlapped (each
\* missed the cache and stored its own classification) and both have
\* returned, each with its entry in the log.
C30_Witness ==
    /\ \A t \in AllThreads : call[t].pc = "returned"
    /\ call[1].prompt # call[2].prompt
    /\ Len(sets) = 2
    /\ NormalizeKey(sets[1].prompt) = NormalizeKey(sets[2].prompt)
    /\ sets[1].result.intent_category # sets[2].result.intent_category
    /\ Len(entries) = 2

\* Thread t's classify gets the service's answer in this step and ends in
\* the fallback.
FallsBack(t) ==
    /\ call[t].pc = "svc_wait"
    /\ call'[t].pc # "svc_wait"
    /\ IsSome(call'[t].classification)
    /\ Get(call'[t].classification).intent_category = "unclassified"

\* Thread t's call begins in this step with a prompt whose key the attached
\* cache does not hold.
BeginsOnMiss(t) ==
    /\ call[t].pc = "idle"
    /\ call'[t].pc # "idle"
    /\ classifier.has_cache
    /\ NormalizeKey(call'[t].prompt) \notin DOMAIN cache

\* C31: a classify call that ends in the "unclassified" fallback (service
\* error, unparseable answer, category outside the configured ones) leaves
\* the cache as it was, with no entry for the prompt's key when the cache is
\* the classifier's; no set call ever
\* stores a fallback result; and a classify of a prompt whose key the cache
\* does not hold calls the service (unless an observer has ended the call
\* before classify).
C31_FallbackNotCached ==
    [][\A t \in Threads :
          /\ FallsBack(t) =>
                /\ cache' = cache
                /\ sets' = sets
                /\ classifier.has_cache => NormalizeKey(call[t].prompt) \notin DOMAIN cache'
          /\ \A i \in DOMAIN sets' : sets'[i].result.intent_category # "unclassified"
          /\ BeginsOnMiss(t) =>
                \/ call'[t].pc = "svc_wait" /\ Len(call'[t].svc) = 1
                \/ call'[t].pc = "raised" /\ call'[t].classification = None]_vars

\* With a cache attached, a call has ended in the fallback and was logged,
\* and a second call with the same prompt is waiting for the service.
C31_Witness ==
    \E t \in Threads :
        /\ classifier.has_cache
        /\ call[t].pc = "svc_wait"
        /\ Len(entries) = 1
        /\ entries[1].prompt_text = call[t].prompt
        /\ entries[1].classification.intent_category = "unclassified"
        /\ entries[1].classification.raw_prompt = call[t].prompt

\* C32: a call invokes the classification service at most once and the
\* downstream model at most once; a service call or a model call that failed
\* is not made again: the call has gone on past it.
C32_NoRetries ==
    \A t \in Threads :
        /\ Len(call[t].svc) <= 1
        /\ Len(call[t].llm) <= 1
        /\ \A i \in DOMAIN call[t].svc :
              IsSome(call[t].svc[i].resp) => call[t].pc # "svc_wait"
        /\ \A i \in DOMAIN call[t].llm :
              IsSome(call[t].llm[i].resp) => call[t].pc # "llm_wait"

\* A call has returned after its one model call raised.
C32_Witness ==
    \E t \in Threads :
        /\ call[t].pc = "returned"
        /\ Len(call[t].svc) = 1
        /\ Len(call[t].llm) = 1
        /\ Get(call[t].llm[1].resp).kind = "raise"

\* The policy holds the rules of the source, rule for rule, and no other.
BuiltFrom(pol, data) ==
    /\ Len(pol.rules) = Len(RawRulesOf(data))
    /\ \A i \in DOMAIN pol.rules :
          /\ pol.rules[i].id = RawRulesOf(data)[i].m.id
          /\ pol.rules[i].decision = RawRulesOf(data)[i].m.decision
          /\ pol.rules[i].match_categories = RawRulesOf(data)[i].m.match_categories

\* C33: the engine's policy is the policy of the most recent successful
\* load. A load that returns makes the policy it returns the engine's
\* policy, built from the rules of its source alone, whatever was loaded
\* before; a load that raises leaves the engine's policy exactly as it was,
\* none if there was none; an evaluate leaves it as it was and answers from
\* the rules of the policy the engine holds.
C33_LatestLoadWins ==
    [][/\ (LoadStep /\ DidReturn(Get(loadOut').out))
          => /\ policy' = Get(loadOut').out.value
             /\ BuiltFrom(Get(policy'), Get(loadOut').data)
       /\ (LoadStep /\ DidRaise(Get(loadOut').out)) => policy' = policy
       /\ (EvaluateStep /\ DidReturn(Get(evalOut').out))
          => /\ policy' = policy
             /\ LET r == Get(Get(evalOut').out.value)
                IN  \/ r.matched_rule_id = "unknown-intent"
                    \/ \E i \in DOMAIN Get(policy).rules :
                          /\ Get(policy).rules[i].id = r.matched_rule_id
                          /\ Lists(Get(policy).rules[i], Get(evalOut').intent_category)]_vars

\* After a successful load, a load of a source without a policy section was
\* refused, and an evaluate was answered by a rule of the policy that stayed.
C33_Witness ==
    /\ loads = 2
    /\ IsSome(loadOut)
    /\ "policy" \notin KeysOf(Get(loadOut).data)
    /\ DidRaise(Get(loadOut).out)
    /\ IsSome(policy)
    /\ IsSome(evalOut) /\ DidReturn(Get(evalOut).out)
    /\ Get(Get(evalOut).out.value).matched_rule_id # "unknown-intent"

\* The fields of a result that the policy decides.
Decided(r) ==
    [decision |-> r.decision, matched_rule_id |-> r.matched_rule_id,
     audit_level |-> r.audit_level, alerts |-> r.alerts, constraints |-> r.constraints]

\* C34: nothing but a load changes the engine's policy: not evaluate, not a
\* step of evaluate_request, not a caller changing the alerts or constraints
\* list of a result it holds (the lists are copies, so the rule's lists stay
\* as loaded); and an evaluate after such a change returns for a category
\* what an evaluate before the change returned for it.
C34_NoAliasing ==
    [][/\ ~LoadStep => policy' = policy
       /\ \A i, j \in DOMAIN held'.results :
             (/\ held'.results[i].intent_category = held'.results[j].intent_category
              /\ held'.results[i].after < held'.results[j].after)
             => Decided(held'.results[j].out) = Decided(held'.results[i].out)]_vars

\* A caller got a result from the rule "constrain-defense", appended to its
\* alerts list, and a second evaluate for the same category was answered
\* with the rule's alerts as loaded.
C34_Witness ==
    /\ Len(held.results) = 2
    /\ held.results[1].intent_category = "missile_defense"
    /\ held.results[2].intent_category = "missile_defense"
    /\ held.results[1].out.matched_rule_id = "constrain-defense"
    /\ held.results[1].lists.alerts.items = <<"oversight", "tampered">>
    /\ held.results[2].after = 1
    /\ held.results[2].out.alerts = <<"oversight">>
    /\ Get(policy).rules[2].alerts = <<"oversight">>

\* The call was forwarded to the downstream model.
Forwarded(c) == c.llm # <<>>

\* C35: under one loaded policy, what evaluate decides depends on the
\* category alone: any two results for one category, direct ones or an
\* evaluate_request's, agree in decision, rule id, audit level, alerts and
\* constraints, whatever the classification's prompt and confidence, the
\* metadata argument and the calls made in between were; and an
\* evaluate_request call is forwarded to the downstream model exactly when
\* its decision is ALLOW or ALLOW_CONSTRAINED, whatever the audit level and
\* the human-review flag of the rule.
C35_DecisionDeterministic ==
    /\ \A i, j \in DOMAIN held.results :
          held.results[i].intent_category = held.results[j].intent_category
          => Decided(held.results[i].out) = Decided(held.results[j].out)
    /\ \A t \in Threads :
          IsSome(call[t].evaluation) =>
              /\ \A i \in DOMAIN held.results :
                    held.results[i].intent_category = Get(call[t].classification).intent_category
                    => Decided(held.results[i].out) = Decided(Get(call[t].evaluation))
              /\ Forwarded(call[t])
                    <=> Get(call[t].evaluation).decision \in {"ALLOW", "ALLOW_CONSTRAINED"}

\* Two direct evaluate calls for "translation" with different
\* classifications and metadata got the same answer from the rule that
\* allows at audit level critical, and an evaluate_request call decided by
\* that rule was forwarded and has returned.
C35_Witness ==
    /\ Len(held.results) = 2
    /\ held.results[1].intent_category = "translation"
    /\ held.results[2].intent_category = "translation"
    /\ held.results[1].classification # held.results[2].classification
    /\ held.results[1].metadata # held.results[2].metadata
    /\ held.results[1].out.matched_rule_id = "allow-watched"
    /\ \E t \in Threads :
          /\ call[t].pc = "returned"
          /\ Get(call[t].evaluation).matched_rule_id = "allow-watched"
          /\ Get(call[t].evaluation).audit_level = "critical"
          /\ Forwarded(call[t])

\* C36: every classification classify has returned, from the cache, from
\* the service or from the fallback, has a category that is one of the
\* classifier's configured categories or "unclassified".
C36_CategoryInVocabulary ==
    \A t \in Threads :
        IsSome(call[t].classification) =>
            \/ InList(Get(call[t].classification).intent_category, classifier.categories)
            \/ Get(call[t].classification).intent_category = "unclassified"

\* C37: every classification classify has returned has a confidence from
\* 0.0 to 1.0 (0 to 100 hundredths), whatever the service answered.
C37_ConfidenceInRange ==
    \A t \in Threads :
        IsSome(call[t].classification) =>
            /\ Get(call[t].classification).confidence >= 0
            /\ Get(call[t].classification).confidence <= 100

\* C38: the classification of every audit entry carries the entry's own
\* prompt: its raw_prompt is the entry's prompt_text, also when the
\* classification came from the cache.
C38_RawPromptIsPrompt ==
    \A i \in DOMAIN entries : entries[i].classification.raw_prompt = entries[i].prompt_text

\* C39: every audit entry's evaluation has no llm_response exactly when its
\* decision is BLOCK, and holds the entry's own classification; the
\* evaluation a call holds is the one in the entry it wrote, so nothing was
\* assigned after the entry was appended; an llm_response once assigned to a
\* call's evaluation is never assigned again, and the entries already in
\* the log stay as they are.
C39_ResponseSetOnce ==
    [][/\ \A i \in DOMAIN entries' :
             /\ entries'[i].evaluation.llm_response = None
                   <=> entries'[i].evaluation.decision = "BLOCK"
             /\ entries'[i].evaluation.classification = entries'[i].classification
             /\ \A t \in Threads :
                   (/\ IsSome(call'[t].evaluation)
                    /\ Get(call'[t].evaluation).oid = entries'[i].evaluation.oid)
                   => Get(call'[t].evaluation) = entries'[i].evaluation
       /\ \A i \in DOMAIN entries : i \in DOMAIN entries' /\ entries'[i] = entries[i]
       /\ \A t \in Threads :
             (/\ IsSome(call[t].evaluation)
              /\ IsSome(Get(call[t].evaluation).llm_response)
              /\ call'[t].pc # "idle")
             => call'[t].evaluation = call[t].evaluation]_vars

\* The log holds the entry of a blocked call, without an llm_response, and
\* the entry of an allowed call that has just returned, with the model's
\* text.
C39_Witness ==
    /\ Len(entries) = 2
    /\ entries[1].evaluation.decision = "BLOCK"
    /\ entries[1].evaluation.llm_response = None
    /\ entries[2].evaluation.decision = "ALLOW"
    /\ entries[2].evaluation.llm_response = Some("reply")
    /\ \E t \in Threads :
          /\ call[t].pc = "returned"
          /\ Get(call[t].evaluation) = entries[2].evaluation

====
